---- MODULE Spec2Model ----
(***************************************************************************)
(* A model of the Director movie reader and Lingo decompiler of            *)
(* tools/willy_re:                                                         *)
(*   - willy_re/lingo/decompiler.py : Decompiler (block discovery, the     *)
(*     structured range pass, the linear fallback, handler isolation);     *)
(*   - willy_re/director/parser.py  : DirectorFile.parse (header, memory   *)
(*     map, metadata, KEY* table, cast libraries and members, name table   *)
(*     and script contexts);                                               *)
(*   - willy_re/cli.py              : the decompile command (parse, then   *)
(*     one parse_lscr and decompile_script per Lscr entry);                *)
(*   - willy_re/lingo/bytecode.py   : parse_lscr over the bytes of an Lscr  *)
(*     chunk (name-index lists, constant pool, handler records,            *)
(*     instruction decoding).                                              *)
(* Python indices are 0-based; the sequences below are 1-based, so the     *)
(* instruction with Python index i is ins[i + 1] (operator At).            *)
(***************************************************************************)
EXTENDS Integers, Sequences, FiniteSets, TLC

VARIABLES
    \* ---- Decompiler (lingo/decompiler.py) ----
    script,         \* the LingoScript handed to Decompiler.__init__
    pc,             \* position of decompile_ast: "ast" | "range" | "done"
    h,              \* index (0-based) of the handler decompile_ast is at
    handlers_out,   \* decompile_ast's local list `handlers`
    offset_to_idx,  \* _decompile_handler's offset -> index dict
    if_blocks,      \* result of _find_if_blocks
    repeat_blocks,  \* result of _find_repeat_blocks
    frames,         \* the activations of _decompile_range, innermost last
    linear_calls,   \* how many ranges of this run fell back to the linear pass
    texts,          \* the source texts the decompile() calls have returned
    \* ---- DirectorFile (director/parser.py) ----
    file,           \* the bytes of the movie file, as what each read finds
    ppc,            \* position of DirectorFile.parse
    error,          \* the exception that left parse(), "" when none
    header,         \* self.header
    entries,        \* self.entries
    key_table,      \* self.key_table
    cast_libraries, \* self.cast_libraries
    key_pos,        \* _parse_keys: index of the next KEY* triple
    lib_pos,        \* _parse_cast_libraries: index of the next library
    cached_fh,      \* self._cached_fh is not None
    name_table,     \* self.name_table
    script_contexts,\* self.script_contexts
    \* ---- the decompile command (cli.py) ----
    cli,            \* position of the command: "parse" | "scripts" | "closed"
    lscr_pos,       \* index of the entry the loop over df.entries is at
    decoded,        \* (idx, LingoScript) of the Lscr entries decoded so far
    \* ---- parse_lscr (lingo/bytecode.py) ----
    lscr_src,       \* what the Lscr chunk was written from
    lscr_data,      \* the parameter data: the bytes of the Lscr chunk
    lscr_names,     \* the parameter names: the name table
    lpc,            \* position of parse_lscr: "start" | "handlers" | "returned"
    lscript,        \* the LingoScript parse_lscr builds
    h_idx,          \* index of the handler record the loop is at
    operand_names,  \* per handler, the names Decompiler._name gives for the
                    \* operands of the instructions that name something
    \* ---- parse_lnam (lingo/bytecode.py) ----
    lnam_data,      \* the parameter data: the bytes of the Lnam chunk
    npc,            \* position of parse_lnam: "start" | "loop" | "returned"
    lnam_offset,    \* the local offset
    lnam_names,     \* the local names, each name the code points of its
                    \* characters
    \* ---- the read handle of DirectorFile (director/parser.py) ----
    fh_log,         \* the handles open(self.path, "rb") has returned to
                    \* _get_fh, in order: "open" | "closed"
    fh_calls        \* the get_entry_data, get_raw_chunk and close calls made
                    \* on the object from outside, in order

dvars == <<script, pc, h, handlers_out, offset_to_idx, if_blocks,
           repeat_blocks, frames, linear_calls, texts>>
tvars == <<name_table, script_contexts>>
cvars == <<cli, lscr_pos, decoded>>
fvars == <<file, ppc, error, header, entries, key_table, cast_libraries,
           key_pos, lib_pos, cached_fh, tvars, cvars>>
svars == <<lscr_src, lscr_data, lscr_names, lpc, lscript, h_idx,
           operand_names>>
nvars == <<lnam_data, npc, lnam_offset, lnam_names>>
hvars == <<fh_log, fh_calls>>
lvars == <<svars, nvars, hvars>>
pvars == <<fvars, lvars>>
vars == <<dvars, pvars>>

----------------------------------------------------------------------------
(* Opcodes: class OpCode, lingo/bytecode.py *)

kOpRet == 1
kOpPushZero == 3
kOpMul == 4
kOpAdd == 5
kOpSub == 6
kOpDiv == 7
kOpMod == 8
kOpJoinStr == 10
kOpJoinPadStr == 11
kOpLt == 12
kOpLtEq == 13
kOpNtEq == 14
kOpEq == 15
kOpGt == 16
kOpGtEq == 17
kOpAnd == 18
kOpOr == 19
kOpContainsStr == 21
kOpContains0Str == 22
kOpOntoSpr == 25
kOpIntoSpr == 26
kOpEndTell == 29
kOpPushInt8 == 65
kOpPushArgListNoRet == 66
kOpPushArgList == 67
kOpPushCons == 68
kOpPushSymb == 69
kOpGetGlobal2 == 71
kOpGetGlobal == 72
kOpGetProp == 73
kOpSetGlobal2 == 76
kOpSetGlobal == 77
kOpSetProp == 78
kOpExtCall == 85
kOpSetLocal == 80
kOpJmp == 81
kOpEndRepeat == 82
kOpJmpIfZ == 83
kOpLocalCall == 84
kOpPop == 98
kOpObjCall == 100
kOpPushInt32 == 103
kOpPushFloat32 == 105

\* Size of an entry of the constants index, variable stride and the
\* recursion-depth ceiling of _decompile_range.
CONST_ENTRY_SIZE == 8
VAR_STRIDE == 8
MaxDepth == 15

\* base_op = op - 0x40 if op >= 0x80 else op
BaseOp(op) == IF op >= 128 THEN op - 64 ELSE op

\* Operand width chosen by _decode_bytecode.
ArgBytes(op) ==
    IF BaseOp(op) \in {kOpPushInt32, kOpPushFloat32} THEN 4
    ELSE IF op >= 128 THEN 2
    ELSE IF op >= 64 THEN 1
    ELSE 0

Op(opcode, arg) == [opcode |-> opcode, arg |-> arg]

RECURSIVE ByteLen(_)
ByteLen(ops) ==
    IF ops = <<>> THEN 0
    ELSE 1 + ArgBytes(ops[1].opcode) + ByteLen(Tail(ops))

\* The LingoInstruction list _decode_bytecode yields for the opcode/operand
\* list ops: instruction k sits at the byte offset where the k-1 before it end.
Decode(ops) ==
    [k \in 1..Len(ops) |->
        [offset |-> ByteLen(SubSeq(ops, 1, k - 1)),
         opcode |-> ops[k].opcode,
         arg    |-> ops[k].arg]]

At(ins, i) == ins[i + 1]
BaseAt(ins, i) == BaseOp(At(ins, i).opcode)

----------------------------------------------------------------------------
(* AST nodes: lingo/ast_nodes.py *)

IntLiteral(v) == [k |-> "IntLiteral", value |-> v]
FloatLiteral(v) == [k |-> "FloatLiteral", value |-> v]
StringLiteral(v) == [k |-> "StringLiteral", value |-> v]
Identifier(name) == [k |-> "Identifier", name |-> name]
BinaryOp(op, left, right) ==
    [k |-> "BinaryOp", op |-> op, left |-> left, right |-> right]
FunctionCall(name, args) == [k |-> "FunctionCall", name |-> name, args |-> args]
MethodCall(obj, method, args) ==
    [k |-> "MethodCall", obj |-> obj, method |-> method, args |-> args]
CallStmt(call) == [k |-> "CallStmt", call |-> call]
AssignStmt(target, value) ==
    [k |-> "AssignStmt", target |-> target, value |-> value]
ReturnStmt(value) == [k |-> "ReturnStmt", value |-> value]
IfStmt(cond, then_body, else_body) ==
    [k |-> "IfStmt", condition |-> cond, then_body |-> then_body,
     else_body |-> else_body]
RepeatWhileStmt(cond, body) ==
    [k |-> "RepeatWhileStmt", condition |-> cond, body |-> body]
HandlerNode(name, args, body) ==
    [k |-> "HandlerNode", name |-> name, args |-> args, body |-> body]
ScriptNode(hs) == [k |-> "ScriptNode", handlers |-> hs]

----------------------------------------------------------------------------
(* to_lingo: the rendering of the AST nodes *)

\* "  " * indent
RECURSIVE Pad(_)
Pad(indent) == IF indent = 0 THEN "" ELSE "  " \o Pad(indent - 1)

\* sep.join of the list v from its i-th string on
RECURSIVE JoinFrom(_, _, _)
JoinFrom(v, sep, i) ==
    IF i > Len(v) THEN ""
    ELSE IF i = Len(v) THEN v[i]
    ELSE v[i] \o sep \o JoinFrom(v, sep, i + 1)

\* sep.join(strs): the list is built once, then joined
Join(strs, sep) == CHOOSE text \in {JoinFrom(v, sep, 1) : v \in {strs}} : TRUE

\* _OP_PRECEDENCE.get(op, 0)
OpPrecedence(op) ==
    CASE op = "or" -> 1
      [] op = "and" -> 2
      [] op = "not" -> 3
      [] op \in {"<", "<=", ">", ">=", "=", "<>", "contains", "starts",
                 "intersects", "within"} -> 4
      [] op \in {"&", "&&"} -> 5
      [] op \in {"+", "-"} -> 6
      [] op \in {"*", "/", "mod"} -> 7
      [] OTHER -> 0

\* The test on the left operand: `if child_prec < my_prec`
LeftInParens(child, my_prec) ==
    child.k = "BinaryOp" /\ OpPrecedence(child.op) < my_prec

\* The test on the right operand made with the rule of the left one.
RightInParensStrict(child, my_prec) ==
    child.k = "BinaryOp" /\ OpPrecedence(child.op) < my_prec

\* The test on the right operand: `if child_prec <= my_prec`
RightInParens(child, my_prec) ==
    child.k = "BinaryOp" /\ OpPrecedence(child.op) <= my_prec

\* to_lingo of IntLiteral, FloatLiteral (of a float with a whole value, kept
\* as that integer), Identifier, FunctionCall, MethodCall and BinaryOp
RECURSIVE ExprText(_)
ExprText(n) ==
    CASE n.k = "IntLiteral" -> ToString(n.value)
      [] n.k = "FloatLiteral" -> ToString(n.value) \o ".0"
      [] n.k = "Identifier" -> n.name
      [] n.k = "FunctionCall" ->
            IF n.args = <<>> THEN n.name
            ELSE n.name \o "("
                 \o Join([i \in 1..Len(n.args) |-> ExprText(n.args[i])], ", ")
                 \o ")"
      [] n.k = "MethodCall" ->
            ExprText(n.obj) \o "." \o n.method \o "("
                \o Join([i \in 1..Len(n.args) |-> ExprText(n.args[i])], ", ")
                \o ")"
      [] n.k = "BinaryOp" ->
            LET my_prec == OpPrecedence(n.op)
                l == ExprText(n.left)
                r == ExprText(n.right)
                left_str == IF LeftInParens(n.left, my_prec)
                            THEN "(" \o l \o ")" ELSE l
                right_str == IF RightInParens(n.right, my_prec)
                             THEN "(" \o r \o ")" ELSE r
            IN  left_str \o " " \o n.op \o " " \o right_str

\* to_lingo(indent) of the statements, and of a list of them (the lines a
\* body contributes).
RECURSIVE StmtText(_, _)
RECURSIVE BodyLines(_, _)
StmtText(n, indent) ==
    CASE n.k = "AssignStmt" ->
            Pad(indent) \o "set " \o ExprText(n.target) \o " = "
                \o ExprText(n.value)
      [] n.k = "CallStmt" -> Pad(indent) \o ExprText(n.call)
      [] n.k = "ReturnStmt" -> Pad(indent) \o "return " \o ExprText(n.value)
      [] n.k = "IfStmt" ->
            Join(<< Pad(indent) \o "if " \o ExprText(n.condition) \o " then" >>
                 \o BodyLines(n.then_body, indent + 1)
                 \o (IF n.else_body # <<>>
                     THEN << Pad(indent) \o "else" >>
                          \o BodyLines(n.else_body, indent + 1)
                     ELSE <<>>)
                 \o << Pad(indent) \o "end if" >>, "\n")
      [] n.k = "RepeatWhileStmt" ->
            Join(<< Pad(indent) \o "repeat while " \o ExprText(n.condition) >>
                 \o BodyLines(n.body, indent + 1)
                 \o << Pad(indent) \o "end repeat" >>, "\n")

BodyLines(stmts, indent) ==
    IF stmts = <<>> THEN <<>>
    ELSE << StmtText(stmts[1], indent) >> \o BodyLines(Tail(stmts), indent)

\* HandlerNode.to_lingo
HandlerText(n, indent) ==
    Join(<< IF n.args # <<>>
            THEN Pad(indent) \o "on " \o n.name \o " " \o Join(n.args, ", ")
            ELSE Pad(indent) \o "on " \o n.name >>
         \o BodyLines(n.body, indent + 1)
         \o << Pad(indent) \o "end" >>, "\n")

\* [h.to_lingo(0) for h in handlers]
RECURSIVE HandlerTexts(_)
HandlerTexts(hs) ==
    IF hs = <<>> THEN <<>>
    ELSE << HandlerText(hs[1], 0) >> \o HandlerTexts(Tail(hs))

\* ScriptNode.to_lingo
ToLingo(n) == Join(HandlerTexts(n.handlers), "\n\n")

----------------------------------------------------------------------------
(* Helpers of Decompiler *)

\* dict.get(key, default)
Get(map, key, default) == IF key \in DOMAIN map THEN map[key] ELSE default

\* A _pop whose fallback is the literal 1.
PopEmptyOne(stack) ==
    IF Len(stack) > 0
    THEN [node |-> stack[Len(stack)], rest |-> SubSeq(stack, 1, Len(stack) - 1)]
    ELSE [node |-> IntLiteral(1), rest |-> <<>>]

\* _pop: the popped node and the stack left; IntLiteral(0) on an empty stack.
Pop(stack) ==
    IF Len(stack) > 0
    THEN [node |-> stack[Len(stack)], rest |-> SubSeq(stack, 1, Len(stack) - 1)]
    ELSE [node |-> IntLiteral(0), rest |-> <<>>]

\* _local_name
LocalName(idx, hd) ==
    IF Len(hd.local_names) > 0 /\ idx < Len(hd.local_names)
    THEN hd.local_names[idx + 1]
    ELSE "local_" \o ToString(idx)

\* handler.name or f"handler_{handler.name_id}"
NodeName(hd) ==
    IF hd.name # "" THEN hd.name ELSE "handler_" \o ToString(hd.name_id)

\* The loop of _decompile_handler that fills offset_to_idx (a later
\* instruction with the same offset overwrites an earlier one).
BuildOffsetMap(ins) ==
    [o \in {ins[k].offset : k \in 1..Len(ins)} |->
        CHOOSE i \in 0..(Len(ins) - 1) :
            /\ At(ins, i).offset = o
            /\ \A j \in (i + 1)..(Len(ins) - 1) : At(ins, j).offset # o]

----------------------------------------------------------------------------
(* Pass 1: control-flow block discovery *)

\* _find_if_blocks without its look at the instruction before else_idx: the
\* block never has an else branch.
IfBlockNoElse(ins, o2i, i) ==
    LET else_idx == Get(o2i, At(ins, i).arg, Len(ins))
    IN  [cond_idx |-> i, else_idx |-> else_idx, end_idx |-> else_idx,
         has_else |-> FALSE]

\* _find_if_blocks that notes the else branch but leaves end_idx at the
\* start of the else branch.
IfBlockEndAtElse(ins, o2i, i) ==
    LET n == Len(ins)
        else_idx == Get(o2i, At(ins, i).arg, n)
        prev_is_jmp ==
            /\ else_idx > 0
            /\ else_idx - 1 < n
            /\ BaseAt(ins, else_idx - 1) = kOpJmp
        real_end ==
            IF prev_is_jmp THEN Get(o2i, At(ins, else_idx - 1).arg, n) ELSE n
    IN  [cond_idx |-> i,
         else_idx |-> else_idx,
         end_idx  |-> else_idx,
         has_else |-> prev_is_jmp /\ real_end > else_idx]

\* The _IfBlock that _find_if_blocks records for the JmpIfZ at index i.
IfBlockAt(ins, o2i, i) ==
    LET n == Len(ins)
        else_idx == Get(o2i, At(ins, i).arg, n)
        prev_is_jmp ==
            /\ else_idx > 0
            /\ else_idx - 1 < n
            /\ BaseAt(ins, else_idx - 1) = kOpJmp
        real_end ==
            IF prev_is_jmp THEN Get(o2i, At(ins, else_idx - 1).arg, n) ELSE n
        has_else == prev_is_jmp /\ real_end > else_idx
    IN  [cond_idx |-> i,
         else_idx |-> else_idx,
         end_idx  |-> IF has_else THEN real_end ELSE else_idx,
         has_else |-> has_else]

FindIfBlocks(ins, o2i) ==
    [i \in {j \in 0..(Len(ins) - 1) : BaseAt(ins, j) = kOpJmpIfZ} |->
        IfBlockAt(ins, o2i, i)]

\* The first index k in lo..hi-1 whose instruction has base opcode op, or
\* none when there is none (the `for k in range(lo, hi)` scans).
FirstOp(ins, lo, hi, op, none) ==
    LET hits == {k \in lo..(hi - 1) : BaseAt(ins, k) = op}
    IN  IF hits = {} THEN none
        ELSE CHOOSE k \in hits : \A m \in hits : k <= m

\* _find_repeat_blocks with the default of _find_if_blocks for an operand
\* that is no instruction offset: the end of the handler.
RepeatBlockDefaultEnd(ins, o2i, i) ==
    LET loop_start_idx == Get(o2i, At(ins, i).arg, Len(ins))
        k == FirstOp(ins, loop_start_idx, i, kOpJmpIfZ, -1)
    IN  [start_idx    |-> IF k = -1 THEN loop_start_idx ELSE k + 1,
         end_idx      |-> i,
         back_jmp_idx |-> i]

\* The _RepeatBlock that _find_repeat_blocks records for the EndRepeat at i.
RepeatBlockAt(ins, o2i, i) ==
    LET loop_start_idx == Get(o2i, At(ins, i).arg, 0)
        k == FirstOp(ins, loop_start_idx, i, kOpJmpIfZ, -1)
    IN  [start_idx    |-> IF k = -1 THEN loop_start_idx ELSE k + 1,
         end_idx      |-> i,
         back_jmp_idx |-> i]

FindRepeatBlocks(ins, o2i) ==
    [i \in {j \in 0..(Len(ins) - 1) : BaseAt(ins, j) = kOpEndRepeat} |->
        RepeatBlockAt(ins, o2i, i)]

\* ScriptConstant(type, value): 1 string, 2 void, 4 integer, 9 float.
ScriptConstant(type, value) == [type |-> type, value |-> value]

\* _resolve_constant with an index that wraps around the pool instead of
\* being tested against its length.
ResolveConstantWrapped(constants, idx) ==
    IF constants # <<>>
    THEN LET c == constants[(idx % Len(constants)) + 1]
         IN  IF c.type = 1 THEN StringLiteral(c.value)
             ELSE IF c.type = 4 THEN IntLiteral(c.value)
             ELSE IF c.type = 9 THEN FloatLiteral(c.value)
             ELSE IntLiteral(0)
    ELSE IntLiteral(0)

\* _resolve_constant
ResolveConstant(constants, idx) ==
    IF idx < Len(constants)
    THEN LET c == constants[idx + 1]
         IN  IF c.type = 1 THEN StringLiteral(c.value)
             ELSE IF c.type = 4 THEN IntLiteral(c.value)
             ELSE IF c.type = 9 THEN FloatLiteral(c.value)
             ELSE IntLiteral(0)
    ELSE IntLiteral(0)

----------------------------------------------------------------------------
(* Pass 2: one instruction *)

\* A _name that builds the placeholder from the low byte of the index.
NameLowByte(nm, idx) ==
    IF 0 <= idx /\ idx < Len(nm) THEN nm[idx + 1]
    ELSE "name_" \o ToString(idx % 256)

\* Decompiler._name
Name(nm, idx) ==
    IF 0 <= idx /\ idx < Len(nm) THEN nm[idx + 1] ELSE "name_" \o ToString(idx)

\* _handler_name
CallHandlerName(handlers, idx) ==
    IF idx < Len(handlers)
    THEN IF handlers[idx + 1].name # "" THEN handlers[idx + 1].name
         ELSE "handler_" \o ToString(idx)
    ELSE "handler_" \o ToString(idx)

\* _pop_n that hands the popped nodes back top first.
RECURSIVE PopNReversed(_, _)
PopNReversed(stack, n) ==
    IF n <= 0 THEN [items |-> <<>>, rest |-> stack]
    ELSE LET p == Pop(stack)
             r == PopNReversed(p.rest, n - 1)
         IN  [items |-> <<p.node>> \o r.items, rest |-> r.rest]

\* _pop_n: n pops, each node put in front of the ones popped before it.
RECURSIVE PopN(_, _)
PopN(stack, n) ==
    IF n <= 0 THEN [items |-> <<>>, rest |-> stack]
    ELSE LET p == Pop(stack)
             r == PopN(p.rest, n - 1)
         IN  [items |-> r.items \o <<p.node>>, rest |-> r.rest]

\* The indices `range(idx - 1, max(idx - 10, -1), -1)` walks, the nearest
\* first, that hold an argument-list marker.
ArgListsBefore(instrs, idx) ==
    LET lowest == IF idx - 10 > -1 THEN idx - 10 ELSE -1
    IN  {j \in (lowest + 1)..(idx - 1) :
            BaseAt(instrs, j) \in {kOpPushArgList, kOpPushArgListNoRet}}

Nearest(S) == CHOOSE j \in S : \A m \in S : m <= j

\* _peek_arg_count
PeekArgCount(instrs, idx) ==
    LET found == ArgListsBefore(instrs, idx)
    IN  IF found = {} THEN 0 ELSE At(instrs, Nearest(found)).arg

\* _was_no_ret
WasNoRet(instrs, idx) ==
    LET found == ArgListsBefore(instrs, idx)
    IN  IF found = {} THEN TRUE
        ELSE BaseAt(instrs, Nearest(found)) = kOpPushArgListNoRet

\* The operator of the BinaryOp each binary opcode builds.
BinaryOps ==
    {kOpMul, kOpAdd, kOpSub, kOpDiv, kOpMod, kOpJoinStr, kOpJoinPadStr,
     kOpLt, kOpLtEq, kOpNtEq, kOpEq, kOpGt, kOpGtEq, kOpAnd, kOpOr,
     kOpContainsStr, kOpContains0Str, kOpOntoSpr, kOpIntoSpr}

BinarySymbol(base_op) ==
    CASE base_op = kOpMul -> "*"
      [] base_op = kOpAdd -> "+"
      [] base_op = kOpSub -> "-"
      [] base_op = kOpDiv -> "/"
      [] base_op = kOpMod -> "mod"
      [] base_op = kOpJoinStr -> "&"
      [] base_op = kOpJoinPadStr -> "&&"
      [] base_op = kOpLt -> "<"
      [] base_op = kOpLtEq -> "<="
      [] base_op = kOpNtEq -> "<>"
      [] base_op = kOpEq -> "="
      [] base_op = kOpGt -> ">"
      [] base_op = kOpGtEq -> ">="
      [] base_op = kOpAnd -> "and"
      [] base_op = kOpOr -> "or"
      [] base_op = kOpContainsStr -> "contains"
      [] base_op = kOpContains0Str -> "starts"
      [] base_op = kOpOntoSpr -> "intersects"
      [] base_op = kOpIntoSpr -> "within"

\* A binary opcode that takes the left operand from the top of the stack.
BinaryResultSwapped(base_op, stack) ==
    LET left == Pop(stack)
        right == Pop(left.rest)
    IN  Append(right.rest, BinaryOp(BinarySymbol(base_op), left.node, right.node))

\* right = self._pop(stack); left = self._pop(stack);
\* stack.append(BinaryOp(op, left, right))
BinaryResult(base_op, stack) ==
    LET right == Pop(stack)
        left == Pop(right.rest)
    IN  Append(left.rest, BinaryOp(BinarySymbol(base_op), left.node, right.node))

\* The branch of a call opcode once its name and arguments are known: a
\* CallStmt after a no-return marker (or none), else a pushed node.
CallResult(call, no_ret, rest, stmts) ==
    IF no_ret
    THEN [stack |-> rest, stmts |-> Append(stmts, CallStmt(call))]
    ELSE [stack |-> Append(rest, call), stmts |-> stmts]

\* _process_instruction for the opcodes modelled: the stack and the
\* statement list it leaves (it always returns idx + 1).
ProcessInstruction(base_op, instr, instrs, idx, stack, stmts, hd) ==
    LET p1 == Pop(stack)
        p2 == Pop(p1.rest)
        popped == PopN(stack, PeekArgCount(instrs, idx))
        no_ret == WasNoRet(instrs, idx)
    IN  CASE base_op = kOpPushZero ->
                [stack |-> Append(stack, IntLiteral(0)), stmts |-> stmts]
          [] base_op = kOpPushInt8 ->
                [stack |-> Append(stack, IntLiteral(instr.arg)), stmts |-> stmts]
          [] base_op = kOpPushCons ->
                [stack |-> Append(stack,
                     ResolveConstant(script.constants,
                                     instr.arg \div CONST_ENTRY_SIZE)),
                 stmts |-> stmts]
          [] base_op = kOpSetLocal ->
                [stack |-> p1.rest,
                 stmts |-> Append(stmts,
                     AssignStmt(Identifier(LocalName(instr.arg \div VAR_STRIDE, hd)),
                                p1.node))]
          [] base_op \in BinaryOps ->
                [stack |-> BinaryResult(base_op, stack), stmts |-> stmts]
          [] base_op = kOpExtCall ->
                CallResult(FunctionCall(Name(script.names, instr.arg),
                                        popped.items),
                           no_ret, popped.rest, stmts)
          [] base_op = kOpLocalCall ->
                CallResult(FunctionCall(
                               CallHandlerName(script.handlers, instr.arg),
                               popped.items),
                           no_ret, popped.rest, stmts)
          [] base_op = kOpObjCall ->
                CallResult(IF popped.items # <<>>
                           THEN MethodCall(popped.items[1],
                                           Name(script.names, instr.arg),
                                           Tail(popped.items))
                           ELSE FunctionCall(Name(script.names, instr.arg),
                                             <<>>),
                           no_ret, popped.rest, stmts)
          [] base_op = kOpRet ->
                IF Len(stack) > 0
                THEN [stack |-> p1.rest, stmts |-> Append(stmts, ReturnStmt(p1.node))]
                ELSE [stack |-> stack, stmts |-> stmts]
          [] base_op = kOpJmpIfZ ->
                IF Len(stack) > 0
                THEN [stack |-> p1.rest,
                      stmts |-> Append(stmts, IfStmt(p1.node, <<>>, <<>>))]
                ELSE [stack |-> stack, stmts |-> stmts]
          [] base_op = kOpPop ->
                IF Len(stack) > 0
                   /\ p1.node.k \in {"FunctionCall", "MethodCall"}
                THEN [stack |-> p1.rest, stmts |-> Append(stmts, CallStmt(p1.node))]
                ELSE [stack |-> p1.rest, stmts |-> stmts]
          [] OTHER ->
                [stack |-> stack, stmts |-> stmts]

----------------------------------------------------------------------------
(* Pass 2: the activations of _decompile_range *)

\* A fresh activation of _decompile_range(start, end, _depth).  wait names
\* the recursive call the activation is suspended in ("none" while it runs);
\* cond, then_stmts and er_idx are its locals that live across that call.
NewFrame(start, end, depth) ==
    [start |-> start, end |-> end, depth |-> depth, i |-> start,
     iteration |-> 0, stack |-> <<>>, statements |-> <<>>,
     wait |-> "none", cond |-> IntLiteral(0), then_stmts |-> <<>>,
     er_idx |-> 0]

\* max_iterations = (end - start + 1) * 3
MaxIterations(f) == (f.end - f.start + 1) * 3

Top == frames[Len(frames)]
Instrs == At(script.handlers, h).instructions
Handler == At(script.handlers, h)

\* The depth test one level late: `if _depth > 16`.
IsLinearLate(f) == f.depth > MaxDepth + 1

\* `if _depth > 15: return self._decompile_range_linear(...)`
IsLinear(f) == f.depth > MaxDepth

\* A loop without the iteration ceiling: the break is never taken.
CeilingNever(f) == FALSE

\* `iteration += 1; if iteration > max_iterations: break`, seen from the
\* loop test: the pass that would start now breaks at once.
CeilingHit(f) == f.iteration + 1 > MaxIterations(f)

\* The structured loop runs another iteration: `while i < end`, and the
\* iteration ceiling has not been passed.
CanIterate(f) ==
    /\ ~IsLinear(f)
    /\ f.i < f.end
    /\ ~CeilingHit(f)

\* The activation is over: the while loop ended or broke on the ceiling
\* (structured), or the linear loop ended.
Finished(f) ==
    IF IsLinear(f) THEN ~(f.i < f.end)
    ELSE ~(f.i < f.end) \/ CeilingHit(f)

ReplaceTop(f) == [frames EXCEPT ![Len(frames)] = f]

\* 1 when a call with this depth takes the linear fallback, else 0.
LinearCall(depth) == IF depth > MaxDepth THEN 1 ELSE 0

\* What the suspended activation `parent` does when the range call it waits
\* for returns stmts: the frames that replace it (itself, and the else-range
\* call when an if with an else branch has just got its then branch).
Deliver(parent, stmts) ==
    IF parent.wait = "then" THEN
        LET block == if_blocks[parent.i]
        IN  IF block.has_else
            THEN << [parent EXCEPT !.then_stmts = stmts, !.wait = "else"],
                    NewFrame(block.else_idx, block.end_idx, parent.depth + 1) >>
            ELSE << [parent EXCEPT
                        !.statements = Append(@, IfStmt(parent.cond, stmts, <<>>)),
                        !.i = block.end_idx,
                        !.wait = "none"] >>
    ELSE IF parent.wait = "else" THEN
        << [parent EXCEPT
               !.statements =
                   Append(@, IfStmt(parent.cond, parent.then_stmts, stmts)),
               !.i = if_blocks[parent.i].end_idx,
               !.wait = "none"] >>
    ELSE
        << [parent EXCEPT
               !.statements = Append(@, RepeatWhileStmt(parent.cond, stmts)),
               !.i = IF parent.er_idx < parent.end
                     THEN parent.er_idx + 1 ELSE parent.end,
               !.wait = "none"] >>

----------------------------------------------------------------------------
(* Actions of the decompiler *)

\* decompile_ast without its try/except: the exception of a raising handler
\* leaves decompile_ast, no ScriptNode is returned.
HandlerRaisesUncaught ==
    /\ pc = "ast"
    /\ h < Len(script.handlers)
    /\ At(script.handlers, h).broken
    /\ pc' = "done"
    /\ UNCHANGED <<script, h, handlers_out, offset_to_idx, if_blocks,
                   repeat_blocks, frames, linear_calls, texts,
                   pvars>>

\* decompile_ast, one pass of `for handler in self.script.handlers` whose
\* _decompile_handler raises: the except branch appends the stub.
HandlerRaises ==
    /\ pc = "ast"
    /\ h < Len(script.handlers)
    /\ Handler.broken
    /\ handlers_out' =
           Append(handlers_out, HandlerNode(NodeName(Handler), <<>>, <<>>))
    /\ h' = h + 1
    /\ UNCHANGED <<script, pc, offset_to_idx, if_blocks, repeat_blocks,
                   frames, linear_calls, texts,
                   pvars>>

\* _decompile_handler up to its call of _decompile_range(0, len(instrs)).
BeginHandler ==
    /\ pc = "ast"
    /\ h < Len(script.handlers)
    /\ ~Handler.broken
    /\ LET ins == Instrs
           o2i == BuildOffsetMap(ins)
       IN  /\ offset_to_idx' = o2i
           /\ if_blocks' = FindIfBlocks(ins, o2i)
           /\ repeat_blocks' = FindRepeatBlocks(ins, o2i)
           /\ frames' = << NewFrame(0, Len(ins), 0) >>
    /\ pc' = "range"
    /\ UNCHANGED <<script, h, handlers_out, linear_calls, texts,
                   pvars>>

\* `if base_op == kOpJmpIfZ and i in if_blocks`: pop the condition and call
\* _decompile_range on the then range.
IfEntry ==
    /\ pc = "range"
    /\ CanIterate(Top)
    /\ BaseAt(Instrs, Top.i) = kOpJmpIfZ
    /\ Top.i \in DOMAIN if_blocks
    /\ LET f == Top
           block == if_blocks[f.i]
           p == Pop(f.stack)
           then_end ==
               IF block.has_else THEN block.else_idx - 1 ELSE block.else_idx
       IN  /\ frames' =
                 Append(ReplaceTop([f EXCEPT !.iteration = @ + 1,
                                             !.stack = p.rest,
                                             !.cond = p.node,
                                             !.wait = "then"]),
                        NewFrame(f.i + 1, then_end, f.depth + 1))
           /\ linear_calls' = linear_calls + LinearCall(f.depth + 1)
    /\ UNCHANGED <<script, pc, h, handlers_out, offset_to_idx, if_blocks,
                   repeat_blocks, texts,
                   pvars>>

\* `if base_op == kOpEndRepeat and i in repeat_blocks: i += 1`
SkipEndRepeat ==
    /\ pc = "range"
    /\ CanIterate(Top)
    /\ BaseAt(Instrs, Top.i) = kOpEndRepeat
    /\ Top.i \in DOMAIN repeat_blocks
    /\ frames' = ReplaceTop([Top EXCEPT !.iteration = @ + 1, !.i = @ + 1])
    /\ UNCHANGED <<script, pc, h, handlers_out, offset_to_idx, if_blocks,
                   repeat_blocks, linear_calls, texts,
                   pvars>>

\* `pop(stack) if stack else IntLiteral(1)`
PopOrOne(stack) ==
    IF Len(stack) > 0 THEN Pop(stack)
    ELSE [node |-> IntLiteral(1), rest |-> stack]

\* A bare Jmp whose target is at or before it: a loop-back; find the
\* EndRepeat and the body start, call _decompile_range on the body.
JmpBackward ==
    /\ pc = "range"
    /\ CanIterate(Top)
    /\ BaseAt(Instrs, Top.i) = kOpJmp
    /\ Get(offset_to_idx, At(Instrs, Top.i).arg, Top.i + 1) <= Top.i
    /\ LET f == Top
           ins == Instrs
           target_idx == Get(offset_to_idx, At(ins, f.i).arg, f.i + 1)
           p == PopOrOne(f.stack)
           er_idx == FirstOp(ins, f.i + 1, f.end, kOpEndRepeat, f.i + 1)
           kz == FirstOp(ins, target_idx, f.i, kOpJmpIfZ, -1)
           body_start == IF kz = -1 THEN f.i + 1 ELSE kz + 1
           q == IF kz = -1 THEN p ELSE PopOrOne(p.rest)
       IN  /\ frames' =
                 Append(ReplaceTop([f EXCEPT !.iteration = @ + 1,
                                             !.stack = q.rest,
                                             !.cond = q.node,
                                             !.er_idx = er_idx,
                                             !.wait = "body"]),
                        NewFrame(body_start, f.i, f.depth + 1))
           /\ linear_calls' = linear_calls + LinearCall(f.depth + 1)
    /\ UNCHANGED <<script, pc, h, handlers_out, offset_to_idx, if_blocks,
                   repeat_blocks, texts,
                   pvars>>

\* A bare Jmp that goes forward (the end of a then branch): skipped.
JmpForward ==
    /\ pc = "range"
    /\ CanIterate(Top)
    /\ BaseAt(Instrs, Top.i) = kOpJmp
    /\ Get(offset_to_idx, At(Instrs, Top.i).arg, Top.i + 1) > Top.i
    /\ frames' = ReplaceTop([Top EXCEPT !.iteration = @ + 1, !.i = @ + 1])
    /\ UNCHANGED <<script, pc, h, handlers_out, offset_to_idx, if_blocks,
                   repeat_blocks, linear_calls, texts,
                   pvars>>

\* Every other instruction of a structured range: _process_instruction.
Instruction ==
    /\ pc = "range"
    /\ CanIterate(Top)
    /\ LET f == Top
           instr == At(Instrs, f.i)
           base_op == BaseOp(instr.opcode)
           r == ProcessInstruction(base_op, instr, Instrs, f.i, f.stack,
                                   f.statements, Handler)
       IN  /\ ~(base_op = kOpJmpIfZ /\ f.i \in DOMAIN if_blocks)
           /\ ~(base_op = kOpEndRepeat /\ f.i \in DOMAIN repeat_blocks)
           /\ base_op # kOpJmp
           /\ frames' = ReplaceTop([f EXCEPT !.iteration = @ + 1,
                                             !.i = @ + 1,
                                             !.stack = r.stack,
                                             !.statements = r.stmts])
    /\ UNCHANGED <<script, pc, h, handlers_out, offset_to_idx, if_blocks,
                   repeat_blocks, linear_calls, texts,
                   pvars>>

\* One pass of the loop of _decompile_range_linear.
LinearStep ==
    /\ pc = "range"
    /\ IsLinear(Top)
    /\ Top.i < Top.end
    /\ LET f == Top
           instr == At(Instrs, f.i)
           r == ProcessInstruction(BaseOp(instr.opcode), instr, Instrs, f.i,
                                   f.stack, f.statements, Handler)
       IN  frames' = ReplaceTop([f EXCEPT !.i = @ + 1,
                                          !.stack = r.stack,
                                          !.statements = r.stmts])
    /\ UNCHANGED <<script, pc, h, handlers_out, offset_to_idx, if_blocks,
                   repeat_blocks, linear_calls, texts,
                   pvars>>

\* A nested range call returns its statements to the activation that made it.
RangeReturns ==
    /\ pc = "range"
    /\ Len(frames) > 1
    /\ Finished(Top)
    /\ frames' = SubSeq(frames, 1, Len(frames) - 2)
                 \o Deliver(frames[Len(frames) - 1], Top.statements)
    /\ linear_calls' =
           linear_calls +
           (IF frames[Len(frames) - 1].wait = "then"
               /\ if_blocks[frames[Len(frames) - 1].i].has_else
            THEN LinearCall(Top.depth) ELSE 0)
    /\ UNCHANGED <<script, pc, h, handlers_out, offset_to_idx, if_blocks,
                   repeat_blocks, texts,
                   pvars>>

\* The outermost range call returns: _decompile_handler builds the
\* HandlerNode and decompile_ast appends it.
HandlerReturns ==
    /\ pc = "range"
    /\ Len(frames) = 1
    /\ Finished(Top)
    /\ handlers_out' =
           Append(handlers_out,
                  HandlerNode(NodeName(Handler), Handler.arg_names, Top.statements))
    /\ h' = h + 1
    /\ frames' = <<>>
    /\ pc' = "ast"
    /\ UNCHANGED <<script, offset_to_idx, if_blocks, repeat_blocks,
                   linear_calls, texts,
                   pvars>>

\* How often a script is decompiled.
MaxCalls == 2

\* A second call that keeps the handler list of the call before it.
DecompileAgainKeeps ==
    /\ pc = "done"
    /\ Len(texts) < MaxCalls
    /\ pc' = "ast"
    /\ h' = 0
    /\ UNCHANGED <<script, handlers_out, offset_to_idx, if_blocks,
                   repeat_blocks, frames, linear_calls, texts, pvars>>

\* decompile_ast: the for loop is over, `return ScriptNode(handlers=handlers)`,
\* and decompile() renders it.
ScriptReturns ==
    /\ pc = "ast"
    /\ h = Len(script.handlers)
    /\ pc' = "done"
    /\ texts' = Append(texts, ToLingo(ScriptNode(handlers_out)))
    /\ UNCHANGED <<script, h, handlers_out, offset_to_idx, if_blocks,
                   repeat_blocks, frames, linear_calls, pvars>>

\* decompile_script(script) is called again on the same LingoScript, through
\* a new Decompiler or the same one (it holds nothing but the references to
\* the script, its names and its constants): decompile_ast starts over with
\* its local `handlers = []`.
DecompileAgain ==
    /\ pc = "done"
    /\ Len(texts) < MaxCalls
    /\ pc' = "ast"
    /\ h' = 0
    /\ handlers_out' = <<>>
    /\ UNCHANGED <<script, offset_to_idx, if_blocks, repeat_blocks, frames,
                   linear_calls, texts, pvars>>

----------------------------------------------------------------------------
(* The scripts handed to the decompiler *)

MaxTarget == 4     \* largest jump operand of an arbitrary instruction
MaxBody == 2       \* longest then / else / loop body
MaxNest == 17      \* deepest nesting of conditionals
MaxHandlers == 2   \* most handlers of a script
MaxConsts == 2     \* most entries of a constant pool

SeqsUpTo(S, n) == UNION {[1..k -> S] : k \in 0..n}

\* Any mix of pushes, stores and jumps, the jumps in their 1-byte and (for
\* JmpIfZ) 2-byte operand form, to any operand 0..MaxTarget: forward,
\* backward, to itself, past the end, and into the middle of an instruction.
ArbOps ==
    {Op(kOpPushInt8, 1), Op(kOpSetLocal, 0)}
    \cup {Op(o, t) : o \in {kOpJmpIfZ, kOpJmp, kOpEndRepeat, kOpJmpIfZ + 64},
                     t \in 0..MaxTarget}

\* Straight-line code that yields at least one statement.
StraightOps ==
    {s \in SeqsUpTo({Op(kOpPushInt8, 5), Op(kOpSetLocal, 0)}, MaxBody) :
        \E k \in 1..Len(s) : s[k].opcode = kOpSetLocal}

CondOps ==
    { <<Op(kOpPushInt8, 1)>>,
      <<Op(kOpPushInt8, 1), Op(kOpPushInt8, 2), Op(kOpAdd, 0)>> }

TailOps ==
    { <<>>, <<Op(kOpRet, 0)>>, <<Op(kOpPushInt8, 7), Op(kOpSetLocal, 0)>> }

\* <condition>; JmpIfZ(loop_end); <body>; EndRepeat(loop_header_offset)
LoopOps(c, b) ==
    c \o <<Op(kOpJmpIfZ, ByteLen(c) + 2 + ByteLen(b) + 2)>>
      \o b \o <<Op(kOpEndRepeat, 0)>>

\* push X; JmpIfZ(else_offset); <then-ops>; Jmp(end_offset); <else-ops>; <end>
IfElseOps(x, t, e, tail) ==
    LET else_offset == 2 + 2 + ByteLen(t) + 2
        end_offset == else_offset + ByteLen(e)
    IN  <<Op(kOpPushInt8, x), Op(kOpJmpIfZ, else_offset)>>
        \o t \o <<Op(kOpJmp, end_offset)>> \o e \o tail

\* n conditionals, each inside the then branch of the one before it, around
\* one assignment; every JmpIfZ goes to the end of the handler.
RECURSIVE NestPrefix(_, _)
NestPrefix(n, end) ==
    IF n = 0 THEN <<>>
    ELSE <<Op(kOpPushInt8, 1), Op(kOpJmpIfZ, end)>> \o NestPrefix(n - 1, end)

NestOps(n) ==
    NestPrefix(n, 4 * n + 4) \o <<Op(kOpPushInt8, 5), Op(kOpSetLocal, 0)>>

\* Handlers whose stores each go to a local of their own (x, local_1,
\* local_2), so that a statement of the body names the store it comes from:
\* a conditional with both branches and a store after it; a conditional
\* whose then branch ends in a Jmp back to the condition, with a store after
\* it; the same with the JmpIfZ going past that store; a store followed by a
\* condition whose JmpIfZ goes back to the store.
StoreTo(v, local) == <<Op(kOpPushInt8, v), Op(kOpSetLocal, local * VAR_STRIDE)>>

TaggedOps ==
    { IfElseOps(1, StoreTo(5, 0), StoreTo(6, 1), StoreTo(7, 2)),
      <<Op(kOpPushInt8, 1), Op(kOpJmpIfZ, 10)>> \o StoreTo(5, 0)
          \o <<Op(kOpJmp, 0)>> \o StoreTo(7, 1),
      <<Op(kOpPushInt8, 1), Op(kOpJmpIfZ, 14)>> \o StoreTo(5, 0)
          \o <<Op(kOpJmp, 0)>> \o StoreTo(7, 1),
      StoreTo(5, 0) \o <<Op(kOpPushInt8, 1), Op(kOpJmpIfZ, 0)>> }

\* A conditional entered while a pushed 9 lies below its condition: the
\* then branch stores to x at once, and the store after the conditional
\* goes to local_1.
HeldNodeOps ==
    <<Op(kOpPushInt8, 9), Op(kOpPushInt8, 1), Op(kOpJmpIfZ, 8)>>
        \o <<Op(kOpSetLocal, 0), Op(kOpSetLocal, VAR_STRIDE)>>

\* Handlers with a jump operand that is the offset of no instruction (1 and
\* 13 lie inside an instruction, 200 past the end): the Jmp that closes the
\* then branch of a conditional with an else branch; the JmpIfZ of a
\* conditional; the EndRepeat of a loop, with and without a JmpIfZ before
\* it; all three in one handler.
Strays == {1, 13, 200}

StrayOps ==
    UNION {
        { <<Op(kOpPushInt8, 1), Op(kOpJmpIfZ, 10)>> \o StoreTo(5, 0)
              \o <<Op(kOpJmp, s)>> \o StoreTo(7, 1),
          <<Op(kOpPushInt8, 1), Op(kOpJmpIfZ, s)>> \o StoreTo(5, 0)
              \o StoreTo(7, 1),
          <<Op(kOpPushInt8, 1), Op(kOpJmpIfZ, 10)>> \o StoreTo(5, 0)
              \o <<Op(kOpEndRepeat, s)>> \o StoreTo(7, 1),
          StoreTo(5, 0) \o <<Op(kOpEndRepeat, s)>> \o StoreTo(7, 1),
          <<Op(kOpPushInt8, 1), Op(kOpJmpIfZ, s)>> \o StoreTo(5, 0)
              \o <<Op(kOpJmp, s), Op(kOpEndRepeat, s)>> } : s \in Strays }

MkScript(hs, constants) ==
    [handlers |-> hs, constants |-> constants, names |-> <<>>]

MkNamedScript(hs, constants, names) ==
    [handlers |-> hs, constants |-> constants, names |-> names]

MkHandler(name, name_id, broken, ops) ==
    [name |-> name, name_id |-> name_id, broken |-> broken,
     instructions |-> Decode(ops), arg_names |-> <<>>,
     local_names |-> <<"x">>]

\* Handlers of at most two arbitrary instructions (a third one makes some
\* runs exponentially long in the depth ceiling: they end, but not soon).
ArbHandlerOps ==
    {<<>>} \cup {<<a>> : a \in ArbOps} \cup {<<a, b>> : a \in ArbOps, b \in ArbOps}

HandlerOps ==
    ArbHandlerOps
    \cup {LoopOps(c, b) : c \in CondOps, b \in StraightOps}
    \cup {IfElseOps(1, t, e, tail) :
            t \in StraightOps, e \in StraightOps, tail \in TailOps}
    \cup {NestOps(n) : n \in 0..MaxNest}
    \cup TaggedOps
    \cup {HeldNodeOps}
    \cup StrayOps

\* Scripts of one well-formed handler.
SingleScripts ==
    {MkScript(<<MkHandler("go", 0, FALSE, ops)>>, <<>>) : ops \in HandlerOps}

\* Scripts of several handlers, some of which make _decompile_handler raise
\* (broken: an object whose instructions cannot be walked), some unnamed.
SmallHandlers ==
    {MkHandler(nm, 3, br, <<Op(kOpPushInt8, 5), Op(kOpSetLocal, 0)>>) :
        nm \in {"go", ""}, br \in BOOLEAN}

MultiScripts ==
    {MkScript(hs, <<>>) : hs \in SeqsUpTo(SmallHandlers, MaxHandlers)}

\* Scripts with a constant pool of up to MaxConsts entries (integers, a
\* float, a void), whose handler pushes a constant through the 1-byte or
\* the 2-byte form of the opcode, stores it, and stores a 7 after it.  The
\* operands address every entry of the pool, the byte offsets inside an
\* entry, and entries past the end of the pool.
PoolEntries ==
    {ScriptConstant(4, 5), ScriptConstant(4, -3), ScriptConstant(9, 2),
     ScriptConstant(2, 0)}

ConsOperands == {0, 7, 8, 15, 8 * MaxConsts, 8 * MaxConsts + 9, 255}

ConsOps(op, a) ==
    << Op(op, a), Op(kOpSetLocal, 0), Op(kOpPushInt8, 7), Op(kOpSetLocal, 0) >>

ConstScripts ==
    {MkScript(<<MkHandler("go", 0, FALSE, ConsOps(op, a))>>, pool) :
        op \in {kOpPushCons, kOpPushCons + 64},
        a \in ConsOperands \cup {65535},
        pool \in SeqsUpTo(PoolEntries, MaxConsts)}

\* Scripts whose handler pushes 1..k, marks an argument list of n
\* arguments (no-return, returning, or returning in the 2-byte form), lets
\* gap instructions that do nothing pass (none, or as many as put the
\* marker on the far edge of the look-back window, or one more), calls (an
\* external handler by a name of the table or past it, a handler of the
\* script or past them, a method), and stores the top of the stack.  Also:
\* two markers before the call, no marker at all, and a returning call
\* whose value is discarded by a Pop.
MaxArgs == 3       \* most pushed values, and the largest marker operand
MaxOperands == 2   \* most values pushed before a single binary opcode

ScriptNames == <<"foo", "bar">>

RECURSIVE Pushes(_)
Pushes(k) == IF k = 0 THEN <<>> ELSE Pushes(k - 1) \o <<Op(kOpPushInt8, k)>>

Gap(g) == [i \in 1..g |-> Op(kOpEndTell, 0)]

Markers == {kOpPushArgListNoRet, kOpPushArgList, kOpPushArgList + 64}

Calls ==
    {Op(kOpExtCall, 0), Op(kOpExtCall, 5), Op(kOpLocalCall, 0),
     Op(kOpLocalCall, 1), Op(kOpObjCall, 1)}

CallOps ==
    {Pushes(k) \o <<Op(m, n)>> \o Gap(g) \o <<c, Op(kOpSetLocal, 0)>> :
        k \in 0..MaxArgs, m \in Markers, n \in 0..MaxArgs, g \in {0, 8, 9},
        c \in Calls}
    \cup {Pushes(MaxArgs) \o <<Op(m1, 1), Op(m2, 2), c, Op(kOpSetLocal, 0)>> :
        m1 \in Markers, m2 \in Markers, c \in Calls}
    \cup {Pushes(k) \o <<c, Op(kOpSetLocal, 0)>> : k \in 0..MaxArgs, c \in Calls}
    \cup {Pushes(k) \o <<Op(kOpPushArgList, n), c, Op(kOpPop, 0)>> :
            k \in 0..MaxArgs, n \in 0..MaxArgs, c \in Calls}

\* Scripts whose handler applies one binary opcode to 0..2 pushed values,
\* or two binary opcodes to three pushed values, the first result being the
\* left or the right operand of the second, and stores the result.
BinaryHandlerOps ==
    {Pushes(k) \o <<Op(b, 0), Op(kOpSetLocal, 0)>> :
        k \in 0..MaxOperands, b \in BinaryOps}
    \cup {Pushes(2) \o <<Op(b1, 0), Op(kOpPushInt8, 3), Op(b2, 0),
                          Op(kOpSetLocal, 0)>> :
            b1 \in BinaryOps, b2 \in BinaryOps}
    \cup {Pushes(3) \o <<Op(b1, 0), Op(b2, 0), Op(kOpSetLocal, 0)>> :
            b1 \in BinaryOps, b2 \in BinaryOps}

BinaryScripts ==
    {MkScript(<<MkHandler("go", 0, FALSE, ops)>>, <<>>) :
        ops \in BinaryHandlerOps}

CallScripts ==
    {MkNamedScript(<<MkHandler("go", 0, FALSE, ops)>>, <<>>, ScriptNames) :
        ops \in CallOps}

----------------------------------------------------------------------------
(* DirectorFile: state while no parse runs *)

NoFile == [tag |-> ""]

\* No parse_lscr runs.
SIdle ==
    /\ lscr_src = <<>>
    /\ operand_names = <<>>
    /\ lscr_data = <<>>
    /\ lscr_names = <<>>
    /\ lpc = "idle"
    /\ lscript = <<>>
    /\ h_idx = 0

NIdle ==
    /\ lnam_data = <<>>
    /\ npc = "idle"
    /\ lnam_offset = 0
    /\ lnam_names = <<>>

\* No handle was opened, no call made.
HIdle ==
    /\ fh_log = <<>>
    /\ fh_calls = <<>>

LIdle == SIdle /\ NIdle /\ HIdle

FIdle ==
    /\ file = NoFile
    /\ ppc = "idle"
    /\ error = ""
    /\ header = ""
    /\ entries = <<>>
    /\ key_table = <<>>
    /\ cast_libraries = <<>>
    /\ key_pos = 0
    /\ lib_pos = 0
    /\ cached_fh = FALSE
    /\ name_table = <<>>
    /\ script_contexts = <<>>
    /\ cli = "idle"
    /\ lscr_pos = 0
    /\ decoded = <<>>

PIdle == FIdle /\ LIdle

----------------------------------------------------------------------------
(* The decompiler's specification *)

DInit ==
    /\ script \in SingleScripts \cup MultiScripts \cup ConstScripts
                 \cup CallScripts \cup BinaryScripts
    /\ pc = "ast"
    /\ h = 0
    /\ handlers_out = <<>>
    /\ offset_to_idx = <<>>
    /\ if_blocks = <<>>
    /\ repeat_blocks = <<>>
    /\ frames = <<>>
    /\ linear_calls = 0
    /\ texts = <<>>

Init == DInit /\ PIdle

Next ==
    \/ HandlerRaises
    \/ BeginHandler
    \/ IfEntry
    \/ SkipEndRepeat
    \/ JmpBackward
    \/ JmpForward
    \/ Instruction
    \/ LinearStep
    \/ RangeReturns
    \/ HandlerReturns
    \/ ScriptReturns
    \/ DecompileAgain

Spec == Init /\ [][Next]_vars

\* decompile_ast is a plain sequential call: it runs until it returns.
FairSpec == Spec /\ WF_vars(Next)

----------------------------------------------------------------------------
(* DirectorFile: the movie file and the structures parse() builds *)

\* `if cast_slot >= 1024: cast_num = cast_slot - 1024`
KeyBias == 1024

\* A chunk of the file, as what the reads of its payload find.  ok: the
\* payload is all there (FALSE: it ends early, a read inside it comes back
\* short).  libs: the cast_count of an MCsL chunk; triples: the triples of a
\* KEY* chunk (with ok FALSE the chunk announces one more than it holds);
\* slots: the 4-byte slot numbers of a CAS* chunk.
\* names: the Pascal strings of an Lnam chunk, each with whether a NUL is
\* among its characters; ctxs: the (type, cast_id) records of an LctX chunk;
\* name_ids: the nameIndex of the handler records of an Lscr chunk.
Chunk(type, ok) ==
    [type |-> type, ok |-> ok, libs |-> 0, triples |-> <<>>, slots |-> <<>>,
     names |-> <<>>, ctxs |-> <<>>, name_ids |-> <<>>]
McslChunk(n, ok) == [Chunk("MCsL", ok) EXCEPT !.libs = n]
KeyChunk(triples, ok) == [Chunk("KEY*", ok) EXCEPT !.triples = triples]
CasChunk(slots) == [Chunk("CAS*", TRUE) EXCEPT !.slots = slots]
LnamChunk(names, ok) == [Chunk("Lnam", ok) EXCEPT !.names = names]
LctxChunk(ctxs, ok) == [Chunk("LctX", ok) EXCEPT !.ctxs = ctxs]
LscrChunk(name_ids, ok) == [Chunk("Lscr", ok) EXCEPT !.name_ids = name_ids]

\* KeyEntry(cast_file_slot, cast_slot, cast_type)
KeyEntry(cast_file_slot, cast_slot, cast_type) ==
    [cast_file_slot |-> cast_file_slot, cast_slot |-> cast_slot,
     cast_type |-> cast_type]

\* FileEntry(id, type, ...): linked_entries starts empty.  The payload of
\* entry id is chunk id + 1 of the file.
FileEntry(id, type) == [id |-> id, type |-> type, linked_entries |-> <<>>]

\* CastLibrary(id, name): lib_slot defaults to -1, members to {}.  members is
\* kept as the list of the dict's items, in insertion order.
CastLibrary(id, name) ==
    [id |-> id, name |-> name, lib_slot |-> -1, members |-> <<>>]

\* CastMember(slot=num, file_slot=slot, linked_entries=list(...))
CastMember(num, slot, linked) ==
    [slot |-> num, file_slot |-> slot, linked_entries |-> linked]

\* Chunk types _parse_metadata reads through self._reader with no try.
HardMeta == {"DRCF", "VWFI", "VWCF"}

\* Chunk types _parse_metadata reads through get_entry_data inside a try.
SoftMeta == {"VWFM", "Fmap", "VWtk", "SCRF", "THUM", "Cinf", "Sord", "XTRl",
             "PUBL", "GRID", "FCOL"}

NotDirector == "ValueError: Not a Director file"
StructError == "struct.error"
IndexError == "IndexError"

\* The loop of _parse_mmap: one FileEntry per chunk of the table.
MmapEntries(chunks) == [k \in 1..Len(chunks) |-> FileEntry(k - 1, chunks[k].type)]

\* The loop of _parse_mcsl: cast_count libraries, ids 0..cast_count-1.
McslLibraries(n) == [j \in 1..n |-> CastLibrary(j - 1, "")]

\* The handles after a step that found _cached_fh set or not (was) and
\* leaves it set or not (is): _get_fh has opened one, close() has closed
\* the cached one, which is the last one opened.
Opened(log, was, is) == IF ~was /\ is THEN Append(log, "open") ELSE log

Released(log, was) ==
    IF was THEN [log EXCEPT ![Len(log)] = "closed"] ELSE log

\* The loop of _parse_metadata: the cast libraries it leaves, whether the
\* cached handle got opened, whether a read raised.  The loop stops at the
\* first DRCF, MCsL, VWFI or VWCF chunk that ends early; up to there the
\* last MCsL decides the libraries and any try-wrapped chunk opens the handle.
MetaScan(ents, chunks, libs, fh) ==
    LET bad == {k \in 1..Len(ents) :
                   chunks[k].type \in HardMeta \cup {"MCsL"} /\ ~chunks[k].ok}
        stop == IF bad = {} THEN Len(ents) + 1
                ELSE CHOOSE k \in bad : \A m \in bad : k <= m
        mcsl == {k \in 1..(stop - 1) : chunks[k].type = "MCsL"}
        last == CHOOSE k \in mcsl : \A m \in mcsl : m <= k
    IN  [libs   |-> IF mcsl = {} THEN libs ELSE McslLibraries(chunks[last].libs),
         fh     |-> fh \/ \E k \in 1..(stop - 1) : chunks[k].type \in SoftMeta,
         raised |-> bad # {}]

\* The index (0-based) of the first entry of the given type, -1 when none.
FirstOfType(ents, type) ==
    LET hits == {k \in 1..Len(ents) : ents[k].type = type}
    IN  IF hits = {} THEN -1
        ELSE (CHOOSE k \in hits : \A m \in hits : k <= m) - 1

\* The body of the loop of _parse_keys without the test of the fourcc: every
\* triple whose cast_slot is at least 1024 names a cast library.
KeyEffectAnyFourcc(ents, libs, t) ==
    IF t.cast_slot >= KeyBias THEN
        IF t.cast_slot - KeyBias < Len(libs)
        THEN [entries |-> ents,
              libs |-> [libs EXCEPT ![t.cast_slot - KeyBias + 1].lib_slot =
                                        t.cast_file_slot]]
        ELSE [entries |-> ents, libs |-> libs]
    ELSE IF t.cast_slot < Len(ents) /\ t.cast_file_slot < Len(ents)
    THEN [entries |-> [ents EXCEPT ![t.cast_slot + 1].linked_entries =
                                       Append(@, t.cast_file_slot)],
          libs |-> libs]
    ELSE [entries |-> ents, libs |-> libs]

\* The body of the loop of _parse_keys with the link put in front of the
\* list instead of at its end.
KeyEffectPrepend(ents, libs, t) ==
    IF t.cast_slot >= KeyBias /\ t.cast_type = "CAS*" THEN
        IF t.cast_slot - KeyBias < Len(libs)
        THEN [entries |-> ents,
              libs |-> [libs EXCEPT ![t.cast_slot - KeyBias + 1].lib_slot =
                                        t.cast_file_slot]]
        ELSE [entries |-> ents, libs |-> libs]
    ELSE IF /\ t.cast_slot < Len(ents)
            /\ (t.cast_slot >= KeyBias \/ t.cast_file_slot < Len(ents))
    THEN [entries |-> [ents EXCEPT ![t.cast_slot + 1].linked_entries =
                                       <<t.cast_file_slot>> \o @],
          libs |-> libs]
    ELSE [entries |-> ents, libs |-> libs]

\* The body of the loop of _parse_keys after the triple t is read and
\* recorded: what it does to self.entries and self.cast_libraries.
KeyEffect(ents, libs, t) ==
    IF t.cast_slot >= KeyBias THEN
        IF t.cast_type = "CAS*" THEN
            IF t.cast_slot - KeyBias < Len(libs)
            THEN [entries |-> ents,
                  libs |-> [libs EXCEPT ![t.cast_slot - KeyBias + 1].lib_slot =
                                            t.cast_file_slot]]
            ELSE [entries |-> ents, libs |-> libs]
        ELSE
            IF t.cast_slot < Len(ents)
            THEN [entries |-> [ents EXCEPT ![t.cast_slot + 1].linked_entries =
                                               Append(@, t.cast_file_slot)],
                  libs |-> libs]
            ELSE [entries |-> ents, libs |-> libs]
    ELSE
        IF t.cast_slot < Len(ents) /\ t.cast_file_slot < Len(ents)
        THEN [entries |-> [ents EXCEPT ![t.cast_slot + 1].linked_entries =
                                           Append(@, t.cast_file_slot)],
              libs |-> libs]
        ELSE [entries |-> ents, libs |-> libs]

\* slot_map of _parse_cast_lib: the (num, slot) items of the non-zero slots.
RECURSIVE SlotMap(_, _)
SlotMap(slots, i) ==
    IF i > Len(slots) THEN <<>>
    ELSE (IF slots[i] # 0 THEN << [num |-> i, slot |-> slots[i]] >> ELSE <<>>)
         \o SlotMap(slots, i + 1)

\* What _parse_cast_member(slot, num) does: "IndexError" when slot is no
\* entry, "struct.error" when the chunk ends early, else the member.
MemberFault(ents, chunks, slot) ==
    IF slot >= Len(ents) THEN IndexError
    ELSE IF ~chunks[slot + 1].ok THEN StructError
    ELSE ""

\* The loop of _parse_cast_lib with members that take no links over from
\* their backing entry.
RECURSIVE MemberLoopNoLinks(_, _, _, _, _)
MemberLoopNoLinks(ents, chunks, items, k, members) ==
    IF k > Len(items) THEN [members |-> members, error |-> ""]
    ELSE LET slot == items[k].slot
             fault == MemberFault(ents, chunks, slot)
         IN  IF fault # "" THEN [members |-> members, error |-> fault]
             ELSE MemberLoopNoLinks(ents, chunks, items, k + 1,
                      Append(members, CastMember(items[k].num, slot, <<>>)))

\* The loop `for num, slot in slot_map.items()` of _parse_cast_lib from item
\* k on: the members stored when it ends, and the exception that ended it
\* ("" when it ran to the end of the items).
RECURSIVE MemberLoop(_, _, _, _, _)
MemberLoop(ents, chunks, items, k, members) ==
    IF k > Len(items) THEN [members |-> members, error |-> ""]
    ELSE LET slot == items[k].slot
             fault == MemberFault(ents, chunks, slot)
         IN  IF fault # "" THEN [members |-> members, error |-> fault]
             ELSE MemberLoop(ents, chunks, items, k + 1,
                      Append(members,
                             CastMember(items[k].num, slot,
                                        ents[slot + 1].linked_entries)))

\* parse_lnam: the names of the chunk; [] when it is shorter than its header.
parse_lnam(chunk) == IF chunk.ok THEN chunk.names ELSE <<>>

\* The validation loop of _parse_lnam: a name with a NUL among its
\* characters becomes name_<i>.
ValidNames(names) ==
    [i \in 1..Len(names) |->
        IF names[i].nul THEN "name_" \o ToString(i - 1) ELSE names[i].text]

\* parse_lctx: one ScriptContextEntry per record; [] for a chunk shorter
\* than its header.
parse_lctx(chunk) ==
    IF chunk.ok
    THEN [i \in 1..Len(chunk.ctxs) |->
             [id |-> i - 1, type |-> chunk.ctxs[i].type,
              cast_id |-> chunk.ctxs[i].cast_id]]
    ELSE <<>>

\* parse_lscr: `if names and 0 <= handler.name_id < len(names)`
HandlerName(names, name_id) ==
    IF names # <<>> /\ 0 <= name_id /\ name_id < Len(names)
    THEN names[name_id + 1]
    ELSE "handler_" \o ToString(name_id)

\* parse_lscr(data, names), as far as names go: an empty LingoScript for a
\* chunk shorter than the header, else script.names and one named handler
\* per handler record.
parse_lscr_names(chunk, names) ==
    IF chunk.ok
    THEN [names |-> names,
          handlers |-> [k \in 1..Len(chunk.name_ids) |->
                           HandlerName(names, chunk.name_ids[k])]]
    ELSE [names |-> <<>>, handlers |-> <<>>]

\* The index of the first Lscr entry at or after index from, -1 when none.
NextLscr(ents, from) ==
    LET hits == {k \in (from + 1)..Len(ents) : ents[k].type = "Lscr"}
    IN  IF hits = {} THEN -1
        ELSE (CHOOSE k \in hits : \A m \in hits : k <= m) - 1

\* The KEY* chunk _parse_key_table hands to _parse_keys.
KeyChunkOfFile == file.chunks[FirstOfType(entries, "KEY*") + 1]

----------------------------------------------------------------------------
(* Actions of DirectorFile.parse *)

\* _parse_header without the test of the tag.
ParseHeaderAnyTag ==
    /\ ppc = "header"
    /\ header' = file.tag
    /\ IF file.cut = "header"
       THEN ppc' = "raised" /\ error' = StructError
       ELSE ppc' = "imap" /\ error' = error
    /\ UNCHANGED <<file, entries, key_table, cast_libraries, key_pos, lib_pos,
                   cached_fh, dvars, lvars,
                   tvars, cvars>>

\* _parse_header
ParseHeader ==
    /\ ppc = "header"
    /\ header' = file.tag
    /\ IF file.tag \notin {"RIFX", "XFIR"}
       THEN ppc' = "raised" /\ error' = NotDirector
       ELSE IF file.cut = "header"
       THEN ppc' = "raised" /\ error' = StructError
       ELSE ppc' = "imap" /\ error' = error
    /\ UNCHANGED <<file, entries, key_table, cast_libraries, key_pos, lib_pos,
                   cached_fh, dvars, lvars,
                   tvars, cvars>>

\* _parse_imap
ParseImap ==
    /\ ppc = "imap"
    /\ IF file.cut = "imap"
       THEN ppc' = "raised" /\ error' = StructError
       ELSE ppc' = "mmap" /\ error' = error
    /\ UNCHANGED <<file, header, entries, key_table, cast_libraries, key_pos,
                   lib_pos, cached_fh, dvars, lvars,
                   tvars, cvars>>

\* _parse_mmap; a table that is cut lacks its last entry.
ParseMmap ==
    /\ ppc = "mmap"
    /\ IF file.cut = "mmap"
       THEN /\ entries' = MmapEntries(SubSeq(file.chunks, 1, Len(file.chunks) - 1))
            /\ ppc' = "raised"
            /\ error' = StructError
       ELSE /\ entries' = MmapEntries(file.chunks)
            /\ ppc' = "metadata"
            /\ error' = error
    /\ UNCHANGED <<file, header, key_table, cast_libraries, key_pos, lib_pos,
                   cached_fh, dvars, lvars,
                   tvars, cvars>>

\* _parse_metadata without its fallback for a movie with no cast library.
ParseMetadataNoFallback ==
    /\ ppc = "metadata"
    /\ LET r == MetaScan(entries, file.chunks, cast_libraries, cached_fh)
       IN  /\ cached_fh' = r.fh
           /\ fh_log' = Opened(fh_log, cached_fh, r.fh)
           /\ cast_libraries' = r.libs
           /\ IF r.raised
              THEN ppc' = "raised" /\ error' = StructError
              ELSE ppc' = "keys" /\ error' = error
    /\ UNCHANGED <<file, header, entries, key_table, key_pos, lib_pos, dvars, svars,
                   nvars, fh_calls,
                   tvars, cvars>>

\* _parse_metadata
ParseMetadata ==
    /\ ppc = "metadata"
    /\ LET r == MetaScan(entries, file.chunks, cast_libraries, cached_fh)
       IN  /\ cached_fh' = r.fh
           /\ fh_log' = Opened(fh_log, cached_fh, r.fh)
           /\ IF r.raised
              THEN /\ cast_libraries' = r.libs
                   /\ ppc' = "raised"
                   /\ error' = StructError
              ELSE /\ cast_libraries' =
                          IF r.libs = <<>>
                          THEN << CastLibrary(0, "Standalone") >>
                          ELSE r.libs
                   /\ ppc' = "keys"
                   /\ error' = error
    /\ UNCHANGED <<file, header, entries, key_table, key_pos, lib_pos, dvars, svars,
                   nvars, fh_calls,
                   tvars, cvars>>

\* _parse_key_table, and _parse_keys up to its loop.
ParseKeyTable ==
    /\ ppc = "keys"
    /\ IF FirstOfType(entries, "KEY*") = -1
       THEN ppc' = "castlibs" /\ key_table' = key_table
       ELSE ppc' = "keyloop" /\ key_table' = <<>>
    /\ key_pos' = 0
    /\ UNCHANGED <<file, error, header, entries, cast_libraries, lib_pos,
                   cached_fh, dvars, lvars,
                   tvars, cvars>>

\* One pass of the loop of _parse_keys.
KeyTriple ==
    /\ ppc = "keyloop"
    /\ key_pos < Len(KeyChunkOfFile.triples)
    /\ LET t == KeyChunkOfFile.triples[key_pos + 1]
           r == KeyEffect(entries, cast_libraries, t)
       IN  /\ key_table' = Append(key_table, t)
           /\ entries' = r.entries
           /\ cast_libraries' = r.libs
    /\ key_pos' = key_pos + 1
    /\ UNCHANGED <<file, ppc, error, header, lib_pos, cached_fh, dvars, lvars,
                   tvars, cvars>>

\* The KEY* chunk ends before the triple its count announces.
KeysCutOff ==
    /\ ppc = "keyloop"
    /\ key_pos = Len(KeyChunkOfFile.triples)
    /\ ~KeyChunkOfFile.ok
    /\ ppc' = "raised"
    /\ error' = StructError
    /\ UNCHANGED <<file, header, entries, key_table, cast_libraries, key_pos,
                   lib_pos, cached_fh, dvars, lvars,
                   tvars, cvars>>

\* The loop of _parse_keys is over.
KeysEnd ==
    /\ ppc = "keyloop"
    /\ key_pos = Len(KeyChunkOfFile.triples)
    /\ KeyChunkOfFile.ok
    /\ ppc' = "castlibs"
    /\ UNCHANGED <<file, error, header, entries, key_table, cast_libraries,
                   key_pos, lib_pos, cached_fh, dvars, lvars,
                   tvars, cvars>>

\* One pass of the loop of _parse_cast_libraries: _parse_cast_lib for a
\* library that has a backing chunk.
ParseCastLib ==
    /\ ppc = "castlibs"
    /\ lib_pos < Len(cast_libraries)
    /\ LET lib == cast_libraries[lib_pos + 1]
       IN  IF lib.lib_slot < 0 THEN
               /\ lib_pos' = lib_pos + 1
               /\ UNCHANGED <<cast_libraries, ppc, error>>
           ELSE IF lib.lib_slot >= Len(entries) THEN
               /\ ppc' = "raised"
               /\ error' = IndexError
               /\ UNCHANGED <<cast_libraries, lib_pos>>
           ELSE
               LET items == SlotMap(file.chunks[lib.lib_slot + 1].slots, 1)
                   r == MemberLoop(entries, file.chunks, items, 1, lib.members)
               IN  /\ cast_libraries' =
                          [cast_libraries EXCEPT ![lib_pos + 1].members = r.members]
                   /\ IF r.error # ""
                      THEN ppc' = "raised" /\ error' = r.error
                                          /\ lib_pos' = lib_pos
                      ELSE lib_pos' = lib_pos + 1 /\ UNCHANGED <<ppc, error>>
    /\ UNCHANGED <<file, header, entries, key_table, key_pos, cached_fh, dvars, lvars,
                   tvars, cvars>>

\* The loop of _parse_cast_libraries is over.
CastLibsEnd ==
    /\ ppc = "castlibs"
    /\ lib_pos = Len(cast_libraries)
    /\ ppc' = "lnam"
    /\ UNCHANGED <<file, error, header, entries, key_table, cast_libraries,
                   key_pos, lib_pos, cached_fh, dvars, lvars,
                   tvars, cvars>>

\* _parse_lnam: get_entry_data opens the cached handle; the first Lnam
\* entry alone is read.
ParseLnam ==
    /\ ppc = "lnam"
    /\ LET i == FirstOfType(entries, "Lnam")
       IN  IF i = -1
           THEN UNCHANGED <<cached_fh, fh_log, name_table>>
           ELSE /\ cached_fh' = TRUE
                /\ fh_log' = Opened(fh_log, cached_fh, TRUE)
                /\ name_table' = ValidNames(parse_lnam(file.chunks[i + 1]))
    /\ ppc' = "lctx"
    /\ UNCHANGED <<file, error, header, entries, key_table, cast_libraries,
                   key_pos, lib_pos, script_contexts, dvars, svars, nvars,
                   fh_calls, cvars>>

\* _parse_lctx, and the return of parse().
ParseLctx ==
    /\ ppc = "lctx"
    /\ LET i == FirstOfType(entries, "LctX")
       IN  IF i = -1
           THEN UNCHANGED <<cached_fh, fh_log, script_contexts>>
           ELSE /\ cached_fh' = TRUE
                /\ fh_log' = Opened(fh_log, cached_fh, TRUE)
                /\ script_contexts' = parse_lctx(file.chunks[i + 1])
    /\ ppc' = "returned"
    /\ UNCHANGED <<file, error, header, entries, key_table, cast_libraries,
                   key_pos, lib_pos, name_table, dvars, svars, nvars,
                   fh_calls, cvars>>

----------------------------------------------------------------------------
(* Actions of the decompile command of cli.py *)

\* The loop over df.entries entered without waiting for df.parse() to
\* return.
CliBeginEarly ==
    /\ cli = "parse"
    /\ ppc \in {"lnam", "lctx", "returned"}
    /\ cli' = "scripts"
    /\ lscr_pos' = 0
    /\ UNCHANGED <<file, ppc, error, header, entries, key_table,
                   cast_libraries, key_pos, lib_pos, cached_fh, tvars,
                   decoded, dvars, lvars>>

\* df.parse() has returned: the command builds member_by_slot and enters its
\* loop over df.entries.
CliBegin ==
    /\ cli = "parse"
    /\ ppc = "returned"
    /\ cli' = "scripts"
    /\ lscr_pos' = 0
    /\ UNCHANGED <<file, ppc, error, header, entries, key_table,
                   cast_libraries, key_pos, lib_pos, cached_fh, tvars,
                   decoded, dvars, lvars>>

\* The loop over df.entries up to and through its next Lscr entry:
\* get_entry_data, parse_lscr(data, names), decompile_script(script).
CliScript ==
    /\ cli = "scripts"
    /\ NextLscr(entries, lscr_pos) # -1
    /\ LET idx == NextLscr(entries, lscr_pos)
       IN  /\ decoded' = Append(decoded,
                  [idx |-> idx,
                   script |-> parse_lscr_names(file.chunks[idx + 1], name_table)])
           /\ lscr_pos' = idx + 1
    /\ cached_fh' = TRUE
    /\ fh_log' = Opened(fh_log, cached_fh, TRUE)
    /\ UNCHANGED <<file, ppc, error, header, entries, key_table,
                   cast_libraries, key_pos, lib_pos, tvars, cli, dvars, svars,
                   nvars, fh_calls>>

\* The `with DirectorFile(file) as df` block is left, by the end of the loop
\* or by the exception of df.parse(): __exit__ calls close().
CliExit ==
    /\ \/ cli = "scripts" /\ NextLscr(entries, lscr_pos) = -1
       \/ cli = "parse" /\ ppc = "raised"
    /\ cli' = "closed"
    /\ cached_fh' = FALSE
    /\ fh_log' = Released(fh_log, cached_fh)
    /\ UNCHANGED <<file, ppc, error, header, entries, key_table,
                   cast_libraries, key_pos, lib_pos, tvars, lscr_pos,
                   decoded, dvars, svars, nvars, fh_calls>>

----------------------------------------------------------------------------
(* The movie files handed to DirectorFile *)

MaxKeys == 2       \* most triples of a KEY* table
MaxSlots == 2      \* most slots of a CAS* table
MaxLibs == 2       \* most cast libraries an MCsL chunk declares
MaxNames == 2      \* most names of an Lnam chunk

\* The first bytes of the file: the two Director tags, another RIFF tag, and
\* files shorter than a tag.
Tags == {"RIFX", "XFIR", "RIFF", "XFI", ""}

\* Where the file ends: nowhere early, right after the tag, inside the imap,
\* inside the mmap table.
Cuts == {"none", "header", "imap", "mmap"}

\* The usual KEY* table: chunk 2 backs library 0, chunk 5 backs library 1,
\* chunk 10 is a payload of the cast member in chunk 3.
StdKeys ==
    << KeyEntry(2, KeyBias, "CAS*"), KeyEntry(5, KeyBias + 1, "CAS*"),
       KeyEntry(10, 3, "BITD") >>

\* A movie of eleven chunks, ids 0..10.
BaseChunks(nlibs, mok, keys, kok, cas0, ok3, ok4, hok, sok) ==
    << McslChunk(nlibs, mok), KeyChunk(keys, kok), CasChunk(cas0),
       Chunk("CASt", ok3), Chunk("CASt", ok4), CasChunk(<<4>>),
       Chunk("VWCF", hok), Chunk("VWFM", sok), Chunk("Lnam", TRUE),
       Chunk("LctX", TRUE), Chunk("BITD", TRUE) >>

StdChunks == BaseChunks(2, TRUE, StdKeys, TRUE, <<3, 4>>, TRUE, TRUE, TRUE, TRUE)

MkFile(tag, cut, chunks) == [tag |-> tag, cut |-> cut, chunks |-> chunks]

\* Any tag, any place to end, over the usual movie, a movie with neither
\* MCsL nor KEY*, and an empty memory map.
HeaderFiles ==
    {MkFile(tag, cut, chunks) :
        tag \in Tags, cut \in Cuts,
        chunks \in {StdChunks, <<Chunk("VWCF", TRUE), Chunk("Lnam", TRUE)>>, <<>>}}

\* Metadata chunks that end early, and 0..MaxLibs declared libraries.
MetaFiles ==
    {MkFile("RIFX", "none",
            BaseChunks(n, mok, StdKeys, TRUE, <<3, 4>>, TRUE, TRUE, hok, sok)) :
        n \in 0..MaxLibs, mok \in BOOLEAN, hok \in BOOLEAN, sok \in BOOLEAN}

\* Triples of a small movie: owner and linking ids that are entries, that are
\* not (KeyBias - 1), and linking ids at and above the bias, with and
\* without the CAS* fourcc.
SmallTriples ==
    {KeyEntry(o, l, t) :
        o \in {3, KeyBias - 1},
        l \in {4, KeyBias - 1, KeyBias, KeyBias + 2},
        t \in {"CAS*", "BITD"}}

KeyFiles ==
    {MkFile("XFIR", "none",
            BaseChunks(2, TRUE, keys, kok, <<3, 4>>, TRUE, TRUE, TRUE, TRUE)) :
        keys \in SeqsUpTo(SmallTriples, MaxKeys), kok \in BOOLEAN}

\* CAS* tables over empty slots, the two CASt chunks and a slot that is no
\* entry; CASt chunks that end early.
MemberFiles ==
    {MkFile("RIFX", "none",
            BaseChunks(2, TRUE, StdKeys, TRUE, cas0, ok3, ok4, TRUE, TRUE)) :
        cas0 \in SeqsUpTo({0, 3, 4, KeyBias - 1}, MaxSlots),
        ok3 \in BOOLEAN, ok4 \in BOOLEAN}

\* A movie of KeyBias + 2 chunks, so that ids at and above the bias are
\* entries too: a KEY* table of one or two triples, one library.
BigTriples ==
    {KeyEntry(o, l, t) :
        o \in {3, KeyBias * 4},
        l \in {KeyBias, KeyBias + 1, KeyBias + 2},
        t \in {"CAS*", "Cinf"}}

BigChunks(keys) ==
    [k \in 1..(KeyBias + 2) |->
        IF k = 1 THEN KeyChunk(keys, TRUE)
        ELSE IF k = 2 THEN McslChunk(1, TRUE)
        ELSE Chunk("free", TRUE)]

BigFiles ==
    {MkFile("RIFX", "none", BigChunks(keys)) :
        keys \in {<<a>> : a \in BigTriples}
                 \cup {<<a, b>> : a \in BigTriples, b \in BigTriples}}

\* Movies with scripts: a name table of up to MaxNames names (one of them
\* may hold a NUL), a script-context table, two Lscr chunks whose handler
\* records name indices inside and outside the table, a second Lnam chunk.
RawNames ==
    {[text |-> "go", nul |-> FALSE], [text |-> "x", nul |-> FALSE],
     [text |-> "bad", nul |-> TRUE]}

ScriptChunks(names, nok, ctxs, cok, ids1, ids2, sok) ==
    << LnamChunk(names, nok), LctxChunk(ctxs, cok), LscrChunk(ids1, TRUE),
       Chunk("VWFM", TRUE), LscrChunk(ids2, sok),
       LnamChunk(<< [text |-> "late", nul |-> FALSE] >>, TRUE) >>

ScriptFiles ==
    {MkFile("RIFX", "none", ScriptChunks(names, nok, ctxs, cok, ids1, ids2, sok)) :
        names \in SeqsUpTo(RawNames, MaxNames), nok \in BOOLEAN,
        ctxs \in {<<>>, << [type |-> 1, cast_id |-> 1] >>}, cok \in BOOLEAN,
        ids1 \in {<<0>>, <<1, -1>>, <<MaxNames>>}, ids2 \in {<<>>, <<0>>},
        sok \in BOOLEAN}

Files ==
    HeaderFiles \cup MetaFiles \cup KeyFiles \cup MemberFiles \cup BigFiles
        \cup ScriptFiles

----------------------------------------------------------------------------
(* The specification of DirectorFile.parse *)

\* No decompiler runs.
DIdle ==
    /\ script = MkScript(<<>>, <<>>)
    /\ pc = "idle"
    /\ h = 0
    /\ handlers_out = <<>>
    /\ offset_to_idx = <<>>
    /\ if_blocks = <<>>
    /\ repeat_blocks = <<>>
    /\ frames = <<>>
    /\ linear_calls = 0
    /\ texts = <<>>

\* The decompile command up to df.parse(): DirectorFile.__init__, and
\* parse() up to its first call.
PInit ==
    /\ DIdle
    /\ file \in Files
    /\ ppc = "header"
    /\ error = ""
    /\ header = ""
    /\ entries = <<>>
    /\ key_table = <<>>
    /\ cast_libraries = <<>>
    /\ key_pos = 0
    /\ lib_pos = 0
    /\ cached_fh = FALSE
    /\ name_table = <<>>
    /\ script_contexts = <<>>
    /\ cli = "parse"
    /\ lscr_pos = 0
    /\ decoded = <<>>
    /\ LIdle

PNext ==
    \/ ParseHeader
    \/ ParseImap
    \/ ParseMmap
    \/ ParseMetadata
    \/ ParseKeyTable
    \/ KeyTriple
    \/ KeysCutOff
    \/ KeysEnd
    \/ ParseCastLib
    \/ CastLibsEnd
    \/ ParseLnam
    \/ ParseLctx
    \/ CliBegin
    \/ CliScript
    \/ CliExit

PSpec == PInit /\ [][PNext]_vars

----------------------------------------------------------------------------
(* The cached read handle: get_entry_data, get_raw_chunk and close called   *)
(* on a DirectorFile from outside, once parse() has returned or raised      *)

MaxFhCalls == 4    \* most calls made on one DirectorFile

\* A _get_fh that opens the file on every call.
GetFhAlways(log, cached) == [log |-> Append(log, "open"), cached |-> TRUE]

\* _get_fh: the handles opened so far and whether one is cached, after it.
GetFh(log, cached) ==
    IF ~cached
    THEN [log |-> Append(log, "open"), cached |-> TRUE]
    ELSE [log |-> log, cached |-> cached]

\* self.entries[slot] raises IndexError unless -len <= slot < len.
SlotInRange(slot) == -Len(entries) <= slot /\ slot < Len(entries)

\* self.entries[slot], a negative slot counting from the end.
EntryAt(slot) ==
    IF slot < 0 THEN entries[Len(entries) + slot + 1] ELSE entries[slot + 1]

\* The slots tried: the last entry by its negative index, the first and the
\* last entry, and the one past the last.
SlotsTried == {-1, 0, Len(entries) - 1, Len(entries)}

Call(name, slot, raised) == [call |-> name, slot |-> slot, raised |-> raised]

CallAllowed ==
    /\ ppc \in {"returned", "raised"}
    /\ cli = "idle"
    /\ Len(fh_calls) < MaxFhCalls

\* get_entry_data(slot): IndexError before anything else for a slot out of
\* range; else _get_fh, seek, read.
GetEntryData ==
    /\ CallAllowed
    /\ \E slot \in SlotsTried :
          IF ~SlotInRange(slot)
          THEN /\ fh_calls' = Append(fh_calls,
                                     Call("get_entry_data", slot, "IndexError"))
               /\ UNCHANGED <<cached_fh, fh_log>>
          ELSE LET r == GetFh(fh_log, cached_fh)
               IN  /\ fh_log' = r.log
                   /\ cached_fh' = r.cached
                   /\ fh_calls' = Append(fh_calls,
                                         Call("get_entry_data", slot, ""))
    /\ UNCHANGED <<file, ppc, error, header, entries, key_table,
                   cast_libraries, key_pos, lib_pos, tvars, cvars, dvars,
                   svars, nvars>>

\* get_raw_chunk(slot): as get_entry_data, but the 4-byte length is
\* unpacked: struct.error when the file ends inside the 8 bytes before the
\* data, which a chunk that ends early may or may not do.
GetRawChunk ==
    /\ CallAllowed
    /\ \E slot \in SlotsTried :
          IF ~SlotInRange(slot)
          THEN /\ fh_calls' = Append(fh_calls,
                                     Call("get_raw_chunk", slot, "IndexError"))
               /\ UNCHANGED <<cached_fh, fh_log>>
          ELSE LET r == GetFh(fh_log, cached_fh)
               IN  /\ fh_log' = r.log
                   /\ cached_fh' = r.cached
                   /\ \E raised \in
                         IF file.chunks[EntryAt(slot).id + 1].ok
                         THEN {""} ELSE {"", "struct.error"} :
                         fh_calls' = Append(fh_calls,
                                            Call("get_raw_chunk", slot, raised))
    /\ UNCHANGED <<file, ppc, error, header, entries, key_table,
                   cast_libraries, key_pos, lib_pos, tvars, cvars, dvars,
                   svars, nvars>>

\* close()
Close ==
    /\ CallAllowed
    /\ fh_log' = Released(fh_log, cached_fh)
    /\ cached_fh' = FALSE
    /\ fh_calls' = Append(fh_calls, Call("close", 0, ""))
    /\ UNCHANGED <<file, ppc, error, header, entries, key_table,
                   cast_libraries, key_pos, lib_pos, tvars, cvars, dvars,
                   svars, nvars>>

\* The movies read: the usual one and one with an empty memory map, under a
\* Director tag and under another; one whose KEY* table is cut; one whose
\* font map ends early.
HFiles ==
    {MkFile(tag, "none", chunks) :
        tag \in {"RIFX", "RIFF"}, chunks \in {StdChunks, <<>>}}
    \cup {MkFile("XFIR", "none",
                  BaseChunks(2, TRUE, <<>>, FALSE, <<3, 4>>, TRUE, TRUE, TRUE, TRUE)),
           MkFile("RIFX", "none",
                  BaseChunks(2, TRUE, StdKeys, TRUE, <<3, 4>>, TRUE, TRUE, TRUE, FALSE))}

\* df = DirectorFile(path); df.parse() is about to run, outside the
\* decompile command.
HInit ==
    /\ DIdle
    /\ file \in HFiles
    /\ ppc = "header"
    /\ error = ""
    /\ header = ""
    /\ entries = <<>>
    /\ key_table = <<>>
    /\ cast_libraries = <<>>
    /\ key_pos = 0
    /\ lib_pos = 0
    /\ cached_fh = FALSE
    /\ name_table = <<>>
    /\ script_contexts = <<>>
    /\ cli = "idle"
    /\ lscr_pos = 0
    /\ decoded = <<>>
    /\ LIdle

HNext ==
    \/ ParseHeader
    \/ ParseImap
    \/ ParseMmap
    \/ ParseMetadata
    \/ ParseKeyTable
    \/ KeyTriple
    \/ KeysCutOff
    \/ KeysEnd
    \/ ParseCastLib
    \/ CastLibsEnd
    \/ ParseLnam
    \/ ParseLctx
    \/ GetEntryData
    \/ GetRawChunk
    \/ Close

HSpec == HInit /\ [][HNext]_vars

----------------------------------------------------------------------------
(* parse_lscr: reading the bytes of an Lscr chunk.  data is a sequence of   *)
(* bytes (0..255); the byte at Python offset o is data[o + 1].              *)

\* struct.unpack_from(">H", data, o)
U16At(d, o) == d[o + 1] * 256 + d[o + 2]

\* struct.unpack_from(">h", data, o): the two's-complement reading
S16At(d, o) == IF U16At(d, o) >= 32768 THEN U16At(d, o) - 65536 ELSE U16At(d, o)

\* struct.unpack_from(">I", data, o), for values below 2^31
U32At(d, o) == ((d[o + 1] * 256 + d[o + 2]) * 256 + d[o + 3]) * 256 + d[o + 4]

\* A 4-byte unpack that reads the first bit as a sign and the rest as the
\* magnitude.
UnpackSignMagnitude(b) ==
    IF b[1] >= 128
    THEN 0 - ((((b[1] - 128) * 256 + b[2]) * 256 + b[3]) * 256 + b[4])
    ELSE ((b[1] * 256 + b[2]) * 256 + b[3]) * 256 + b[4]

\* struct.unpack(">i", b) of four bytes b: the first byte counts as signed
\* (two's complement), the others as unsigned.
UnpackInt32(b) ==
    ((((IF b[1] >= 128 THEN b[1] - 256 ELSE b[1]) * 256 + b[2]) * 256 + b[3])
        * 256) + b[4]

\* struct.unpack(">i", struct.pack(">I", value)) where value is the
\* unsigned number at data[o : o + 4]: pack() gives those four bytes back.
S32At(d, o) == UnpackInt32(SubSeq(d, o + 1, o + 4))

\* LingoScript(), LingoHandler(): the dataclass defaults
LingoScript ==
    [script_number |-> 0, script_flags |-> 0, handler_count |-> 0,
     handlers |-> <<>>, constants |-> <<>>, names |-> <<>>,
     property_names |-> <<>>, global_names |-> <<>>]

\* LingoInstruction(offset, opcode) with arg and arg_bytes (float_arg, the
\* float reading of the same four bytes as arg, is left out)
LingoInstruction(offset, opcode, arg, arg_bytes) ==
    [offset |-> offset, opcode |-> opcode, arg |-> arg, arg_bytes |-> arg_bytes]

\* The loop of _read_name_indices_s16 that does not stop at the -1 sentinel.
RECURSIVE NameLoopNoSentinel(_, _, _, _, _)
NameLoopNoSentinel(d, offset, count, nm, i) ==
    IF i >= count \/ offset + i * 2 + 2 > Len(d) THEN <<>>
    ELSE LET name_idx == S16At(d, offset + i * 2)
         IN  << IF nm # <<>> /\ 0 <= name_idx /\ name_idx < Len(nm)
                THEN nm[name_idx + 1]
                ELSE "name_" \o ToString(name_idx) >>
             \o NameLoopNoSentinel(d, offset, count, nm, i + 1)

\* The loop of _read_name_indices_s16 from index i on.
RECURSIVE NameLoop(_, _, _, _, _)
NameLoop(d, offset, count, nm, i) ==
    IF i >= count \/ offset + i * 2 + 2 > Len(d) THEN <<>>
    ELSE LET name_idx == S16At(d, offset + i * 2)
         IN  IF name_idx = -1 THEN <<>>
             ELSE << IF nm # <<>> /\ 0 <= name_idx /\ name_idx < Len(nm)
                     THEN nm[name_idx + 1]
                     ELSE "name_" \o ToString(name_idx) >>
                  \o NameLoop(d, offset, count, nm, i + 1)

\* _read_name_indices_s16(data, offset, count, names)
ReadNameIndices(d, offset, count, nm) ==
    IF offset = 0 \/ count = 0 THEN <<>> ELSE NameLoop(d, offset, count, nm, 0)

\* The loop of _decode_bytecode that takes the 4-byte operand for the
\* opcodes 0x67 and 0x69 themselves only, not for their 0x80+ forms.
RECURSIVE DecodeLoopPlainFour(_, _, _, _)
DecodeLoopPlainFour(d, offset, pos, end) ==
    IF ~(pos < end /\ pos < Len(d)) THEN <<>>
    ELSE LET op == d[pos + 1]
         IN  IF op \in {kOpPushInt32, kOpPushFloat32} THEN
                 IF pos + 4 >= Len(d) THEN <<>>
                 ELSE << LingoInstruction(pos - offset, op,
                            IF op = kOpPushFloat32
                            THEN U32At(d, pos + 1) ELSE S32At(d, pos + 1), 4) >>
                      \o DecodeLoopPlainFour(d, offset, pos + 5, end)
             ELSE IF op >= 128 THEN
                 IF pos + 2 >= Len(d) THEN <<>>
                 ELSE << LingoInstruction(pos - offset, op, U16At(d, pos + 1), 2) >>
                      \o DecodeLoopPlainFour(d, offset, pos + 3, end)
             ELSE IF op >= 64 THEN
                 IF pos + 1 >= Len(d) THEN <<>>
                 ELSE << LingoInstruction(pos - offset, op, d[pos + 2], 1) >>
                      \o DecodeLoopPlainFour(d, offset, pos + 2, end)
             ELSE << LingoInstruction(pos - offset, op, 0, 0) >>
                  \o DecodeLoopPlainFour(d, offset, pos + 1, end)

\* The loop `while pos < end and pos < len(data)` of _decode_bytecode from
\* position pos on: the instructions it appends.
RECURSIVE DecodeLoop(_, _, _, _)
DecodeLoop(d, offset, pos, end) ==
    IF ~(pos < end /\ pos < Len(d)) THEN <<>>
    ELSE LET op == d[pos + 1]
             base_op == BaseOp(op)
         IN  IF base_op \in {kOpPushInt32, kOpPushFloat32} THEN
                 IF pos + 4 >= Len(d) THEN <<>>
                 ELSE << LingoInstruction(pos - offset, op,
                            IF base_op = kOpPushFloat32
                            THEN U32At(d, pos + 1) ELSE S32At(d, pos + 1), 4) >>
                      \o DecodeLoop(d, offset, pos + 5, end)
             ELSE IF op >= 128 THEN
                 IF pos + 2 >= Len(d) THEN <<>>
                 ELSE << LingoInstruction(pos - offset, op, U16At(d, pos + 1), 2) >>
                      \o DecodeLoop(d, offset, pos + 3, end)
             ELSE IF op >= 64 THEN
                 IF pos + 1 >= Len(d) THEN <<>>
                 ELSE << LingoInstruction(pos - offset, op, d[pos + 2], 1) >>
                      \o DecodeLoop(d, offset, pos + 2, end)
             ELSE << LingoInstruction(pos - offset, op, 0, 0) >>
                  \o DecodeLoop(d, offset, pos + 1, end)

\* _decode_bytecode(data, offset, length)
DecodeBytecode(d, offset, length) == DecodeLoop(d, offset, offset, offset + length)

\* data[a:b] for 0 <= a
Slice(d, a, b) == SubSeq(d, a + 1, IF b < Len(d) THEN b ELSE Len(d))

\* One entry of the constants index at tbl, of the type const_type: the
\* ScriptConstant it becomes.  A string is kept as its bytes (latin-1 maps
\* each to the character of the same number), a float as the bytes it is
\* unpacked from, 0 standing for 0.0 and "None" for None.
ConstantAt(d, tbl, store, const_type) ==
    LET store_pos == store + U32At(d, tbl + 4)
    IN  IF const_type = 1 THEN
            IF store_pos + 4 > Len(d) THEN ScriptConstant(1, <<>>)
            ELSE LET raw == Slice(d, store_pos + 4,
                                  store_pos + 4 + U32At(d, store_pos))
                 IN  ScriptConstant(1,
                         IF raw # <<>> /\ raw[Len(raw)] = 0
                         THEN SubSeq(raw, 1, Len(raw) - 1) ELSE raw)
        ELSE IF const_type = 4 THEN ScriptConstant(4, S32At(d, tbl + 4))
        ELSE IF const_type = 9 THEN
            IF store_pos + 4 > Len(d) THEN ScriptConstant(9, 0)
            ELSE LET float_len == U32At(d, store_pos)
                 IN  IF float_len = 8 /\ store_pos + 4 + 8 <= Len(d)
                     THEN ScriptConstant(9, Slice(d, store_pos + 4, store_pos + 12))
                     ELSE IF float_len = 10 /\ store_pos + 4 + 10 <= Len(d)
                     THEN ScriptConstant(9, Slice(d, store_pos + 4, store_pos + 14))
                     ELSE ScriptConstant(9, 0)
        ELSE ScriptConstant(const_type, "None")

\* The loop of _parse_constants from entry i on: the constants it appends.
RECURSIVE ConstLoop(_, _, _, _, _)
ConstLoop(d, tbl, store, count, i) ==
    IF i >= count \/ tbl + 8 > Len(d) THEN <<>>
    ELSE << ConstantAt(d, tbl, store, U32At(d, tbl)) >>
         \o ConstLoop(d, tbl + 8, store, count, i + 1)

\* The contents map of the header, and the size of a handler record.
PropertiesCount == U16At(lscr_data, 60)
PropertiesOffset == U32At(lscr_data, 62)
GlobalsCount == U16At(lscr_data, 66)
GlobalsOffset == U32At(lscr_data, 68)
FunctionsCount == U16At(lscr_data, 72)
FunctionsOffset == U32At(lscr_data, 74)
ConstsCount == U16At(lscr_data, 78)
ConstsOffset == U32At(lscr_data, 80)
ConstsStoreOffset == U32At(lscr_data, 88)
HeaderSize == 92
HANDLER_RECORD_SIZE == 42

\* The handler record at offset: the LingoHandler the loop body of
\* parse_lscr builds from it.
HandlerAt(d, offset, nm, global_names, globals_count) ==
    LET name_id == S16At(d, offset)
        bytecode_length == U32At(d, offset + 4)
        code_start_offset == U32At(d, offset + 8)
        arg_count == U16At(d, offset + 12)
        arg_offset == U32At(d, offset + 14)
        local_count == U16At(d, offset + 18)
        var_offset == U32At(d, offset + 20)
    IN  [name_id |-> name_id,
         bytecode_offset |-> code_start_offset,
         bytecode_length |-> bytecode_length,
         arg_count |-> arg_count,
         local_count |-> local_count,
         global_count |-> globals_count,
         name |-> HandlerName(nm, name_id),
         instructions |-> DecodeBytecode(d, code_start_offset, bytecode_length),
         arg_names |-> ReadNameIndices(d, arg_offset, arg_count, nm),
         local_names |-> ReadNameIndices(d, var_offset, local_count, nm),
         global_names |-> global_names]

----------------------------------------------------------------------------
(* Actions of parse_lscr *)

\* parse_lscr up to its loop over the handler records: the size test, the
\* header and the contents map, the property and global names, the
\* constant pool.
LscrHeader ==
    /\ lpc = "start"
    /\ IF Len(lscr_data) < HeaderSize
       THEN /\ lscript' = LingoScript
            /\ lpc' = "returned"
       ELSE /\ lscript' =
                 [LingoScript EXCEPT
                    !.names = lscr_names,
                    !.script_number = U16At(lscr_data, 18),
                    !.script_flags = U32At(lscr_data, 38),
                    !.handler_count = FunctionsCount,
                    !.property_names =
                        ReadNameIndices(lscr_data, PropertiesOffset,
                                        PropertiesCount, lscr_names),
                    !.global_names =
                        ReadNameIndices(lscr_data, GlobalsOffset,
                                        GlobalsCount, lscr_names),
                    !.constants =
                        ConstLoop(lscr_data, ConstsOffset, ConstsStoreOffset,
                                  ConstsCount, 0)]
            /\ lpc' = "handlers"
    /\ UNCHANGED <<lscr_src, lscr_data, lscr_names, h_idx, operand_names, dvars,
                   fvars, nvars, hvars>>

\* One pass of `for h_idx in range(functions_count)` over a record that
\* lies inside the chunk.
LscrHandler ==
    /\ lpc = "handlers"
    /\ h_idx < FunctionsCount
    /\ LET offset == FunctionsOffset + h_idx * HANDLER_RECORD_SIZE
       IN  /\ offset + HANDLER_RECORD_SIZE <= Len(lscr_data)
           /\ lscript' =
                  [lscript EXCEPT !.handlers =
                      Append(@, HandlerAt(lscr_data, offset, lscr_names,
                                          lscript.global_names, GlobalsCount))]
    /\ h_idx' = h_idx + 1
    /\ UNCHANGED <<lscr_src, lscr_data, lscr_names, lpc, operand_names, dvars,
                   fvars, nvars, hvars>>

\* The record at h_idx runs past the end of the chunk: `break`, and
\* parse_lscr returns the script.
LscrTruncated ==
    /\ lpc = "handlers"
    /\ h_idx < FunctionsCount
    /\ FunctionsOffset + h_idx * HANDLER_RECORD_SIZE + HANDLER_RECORD_SIZE
           > Len(lscr_data)
    /\ lpc' = "returned"
    /\ UNCHANGED <<lscr_src, lscr_data, lscr_names, lscript, h_idx,
                   operand_names, dvars, fvars, nvars, hvars>>

\* The loop over the handler records is over: `return script`.
LscrReturns ==
    /\ lpc = "handlers"
    /\ h_idx = FunctionsCount
    /\ lpc' = "returned"
    /\ UNCHANGED <<lscr_src, lscr_data, lscr_names, lscript, h_idx,
                   operand_names, dvars, fvars, nvars, hvars>>


\* Opcodes whose branch of _process_instruction is `self._name(arg)` on
\* the operand as it is: symbols, globals, properties, called handlers.
NameOps ==
    {kOpPushSymb, kOpGetGlobal, kOpGetGlobal2, kOpGetProp, kOpSetGlobal,
     kOpSetGlobal2, kOpSetProp, kOpExtCall}

\* The names _process_instruction resolves over the instructions ins.
RECURSIVE OperandNames(_, _)
OperandNames(nm, ins) ==
    IF ins = <<>> THEN <<>>
    ELSE (IF BaseOp(ins[1].opcode) \in NameOps
          THEN << Name(nm, ins[1].arg) >> ELSE <<>>)
         \o OperandNames(nm, Tail(ins))

\* Decompiler(script) over the script parse_lscr returned: self.names is
\* script.names, and every instruction that names a symbol, global,
\* property or called handler has its operand resolved by _name.
ResolveOperands ==
    /\ lpc = "returned"
    /\ operand_names' =
           [k \in 1..Len(lscript.handlers) |->
               OperandNames(lscript.names, lscript.handlers[k].instructions)]
    /\ lpc' = "decompiled"
    /\ UNCHANGED <<lscr_src, lscr_data, lscr_names, lscript, h_idx, dvars,
                   fvars, nvars, hvars>>

----------------------------------------------------------------------------
(* The Lscr chunks handed to parse_lscr *)

MaxList == 2       \* longest name-index list
MaxCode == 3       \* most pieces a handler's bytecode is made of

\* struct.pack of small numbers, and n zero bytes
PackU16(v) == << v \div 256, v % 256 >>
PackS16(v) == PackU16((v + 65536) % 65536)
PackU32(v) == << 0, v \div 65536 >> \o PackU16(v % 65536)
Zeros(n) == [i \in 1..n |-> 0]

RECURSIVE Flat(_)
Flat(seqs) == IF seqs = <<>> THEN <<>> ELSE seqs[1] \o Flat(Tail(seqs))

\* A name-index list: the count its owner declares, the indices written,
\* and whether the owner gives its offset as 0.
IndexList(count, vals, absent) == [count |-> count, vals |-> vals, absent |-> absent]

NoList == IndexList(0, <<>>, FALSE)

\* A handler as written: the name index, the bytecode and the length the
\* record declares for it, the argument and local name-index lists.
SrcHandler(name_id, code, length, args, locals) ==
    [name_id |-> name_id, code |-> code, length |-> length, args |-> args,
     locals |-> locals]

\* A constant as written: the type and the four bytes of the value.
SrcConstant(type, raw) == [type |-> type, raw |-> raw]

\* What a chunk is written from.  order lists the sections after the
\* header in the order they are laid out; cut is how many bytes are missing
\* at the end of the chunk.
LscrSource(props, globs, consts, hs, order, cut) ==
    [props |-> props, globs |-> globs, consts |-> consts, handlers |-> hs,
     order |-> order, cut |-> cut]

ListBytes(l) == Flat([i \in 1..Len(l.vals) |-> PackS16(l.vals[i])])

\* The sections of the chunk but the handler records (whose length is
\* known without them): "props", "globs", "consts", and per handler k its
\* code <<"code", k>>, argument list and local list.
SectionBytes(q, id) ==
    CASE id = "props" -> ListBytes(q.props)
      [] id = "globs" -> ListBytes(q.globs)
      [] id = "consts" ->
            Flat([i \in 1..Len(q.consts) |->
                     PackU32(q.consts[i].type) \o q.consts[i].raw])
      [] id = "records" -> Zeros(HANDLER_RECORD_SIZE * Len(q.handlers))
      [] id = "code1" -> q.handlers[1].code
      [] id = "args1" -> ListBytes(q.handlers[1].args)
      [] id = "locals1" -> ListBytes(q.handlers[1].locals)
      [] id = "code2" -> q.handlers[2].code
      [] id = "args2" -> ListBytes(q.handlers[2].args)
      [] id = "locals2" -> ListBytes(q.handlers[2].locals)

\* The offset of section id: the header and the sections laid out before it.
RECURSIVE SectionOffset(_, _, _)
SectionOffset(q, id, k) ==
    IF q.order[k] = id THEN HeaderSize
    ELSE Len(SectionBytes(q, q.order[k])) + SectionOffset(q, id, k + 1)

ListOffset(q, l, id) == IF l.absent THEN 0 ELSE SectionOffset(q, id, 1)

\* The record of handler k.
RecordBytes(q, k) ==
    LET hd == q.handlers[k]
        n == IF k = 1 THEN "1" ELSE "2"
    IN  PackS16(hd.name_id) \o Zeros(2) \o PackU32(hd.length)
        \o PackU32(SectionOffset(q, "code" \o n, 1))
        \o PackU16(hd.args.count)
        \o PackU32(ListOffset(q, hd.args, "args" \o n))
        \o PackU16(hd.locals.count)
        \o PackU32(ListOffset(q, hd.locals, "locals" \o n))
        \o Zeros(18)

\* The header with its contents map.
HeaderBytes(q) ==
    Zeros(16) \o PackU16(92) \o PackU16(1) \o Zeros(18) \o PackU32(0)
    \o Zeros(18)
    \o PackU16(q.props.count) \o PackU32(ListOffset(q, q.props, "props"))
    \o PackU16(q.globs.count) \o PackU32(ListOffset(q, q.globs, "globs"))
    \o PackU16(Len(q.handlers)) \o PackU32(SectionOffset(q, "records", 1))
    \o PackU16(Len(q.consts)) \o PackU32(SectionOffset(q, "consts", 1))
    \o PackU32(0) \o PackU32(0)

\* The bytes of the chunk.
LscrBytes(q) ==
    LET all == HeaderBytes(q)
               \o Flat([k \in 1..Len(q.order) |->
                          IF q.order[k] = "records"
                          THEN Flat([j \in 1..Len(q.handlers) |-> RecordBytes(q, j)])
                          ELSE SectionBytes(q, q.order[k])])
    IN  SubSeq(all, 1, Len(all) - q.cut)

\* The name tables: the first n of these names.
FixedNames == <<"go", "x", "me", "it">>
NameTables == {SubSeq(FixedNames, 1, n) : n \in 0..MaxNames}

\* Name indices written into a list: in range, the sentinel, negative, large.
ListValues == {0, 1, -1, -2, 9}

\* Lists whose declared count and written entries need not agree.
IndexLists ==
    {IndexList(count, vals, absent) :
        count \in 0..MaxList, vals \in SeqsUpTo(ListValues, MaxList),
        absent \in BOOLEAN}

\* Chunks about name-index lists: the property list is laid out last, so
\* that the chunk may end inside it; the one handler returns at once.
ListChunks ==
    {LscrSource(props, IndexList(1, <<0>>, FALSE), <<>>,
                <<SrcHandler(0, <<kOpRet>>, 1, IndexList(1, <<1>>, FALSE), NoList)>>,
                <<"records", "code1", "args1", "locals1", "consts", "globs",
                  "props">>, cut) :
        props \in IndexLists, cut \in 0..1}

\* Chunks about the names of handlers and of operands: the handler's name
\* index, its argument and local lists, and one instruction with a name
\* operand in the 1-byte or in the 2-byte form.
NameOperands ==
    {<<op, arg>> : op \in {kOpPushSymb, kOpSetGlobal, kOpExtCall},
                   arg \in {0, 1, 2, 200}}
      \cup {<<kOpGetProp + 64, 0, 1>>, <<kOpGetGlobal2 + 64, 1, 44>>}

NameChunks ==
    {LscrSource(NoList, NoList, <<>>,
                <<SrcHandler(name_id, code, Len(code),
                             IndexList(Len(vals), vals, FALSE),
                             IndexList(1, <<name_id>>, FALSE))>>,
                <<"props", "globs", "consts", "records", "code1", "args1",
                  "locals1">>, 0) :
        name_id \in {0, 1, 2, -1, -3, 300}, code \in NameOperands,
        vals \in {<<>>, <<0, 7>>, <<-5>>}}

\* Chunks about the constant pool: integers at and around the ends of the
\* signed range, and one entry each of a string, a float and an unknown type.
IntegerBytes ==
    {<<0, 0, 0, 0>>, <<0, 0, 0, 1>>, <<0, 1, 0, 0>>, <<127, 255, 255, 255>>,
     <<128, 0, 0, 0>>, <<128, 0, 0, 1>>, <<255, 255, 255, 254>>,
     <<255, 255, 255, 255>>}

SrcConstants ==
    {SrcConstant(4, raw) : raw \in IntegerBytes}
      \cup {SrcConstant(1, <<0, 0, 0, 0>>), SrcConstant(9, <<0, 0, 0, 0>>),
            SrcConstant(2, <<0, 0, 0, 5>>)}

ConstChunks ==
    {LscrSource(NoList, NoList, consts, <<>>,
                <<"props", "globs", "records", "consts">>, cut) :
        consts \in SeqsUpTo(SrcConstants, MaxConsts) \ {<<>>}, cut \in {0, 3}}

\* Chunks about instruction decoding: the bytecode is made of up to MaxCode
\* pieces, whole instructions of every width and opcode bytes without their
\* operand, so that what follows is read as the operand.
CodePieces ==
    {<<kOpRet>>, <<kOpPushInt8, 7>>, <<kOpPushInt8 + 64, 1, 2>>,
     <<kOpPushInt32, 0, 0, 1, 0>>, <<kOpPushInt32 + 64, 255, 255, 255, 254>>,
     <<kOpPushFloat32, 63, 128, 0, 0>>, <<kOpPushFloat32 + 64, 0, 0, 0, 1>>,
     <<kOpPushInt32>>, <<kOpPushInt8 + 64>>}

Codes == {Flat(ps) : ps \in SeqsUpTo(CodePieces, MaxCode)}

\* The bytecode is laid out last; the record may declare one byte less than
\* written, and the chunk may end inside the bytecode.
CodeChunks ==
    {LscrSource(NoList, NoList, <<>>,
                <<SrcHandler(0, code, Len(code) - short, NoList, NoList)>>,
                <<"props", "globs", "consts", "records", "args1", "locals1",
                  "code1">>, cut) :
        code \in Codes \ {<<>>}, short \in 0..1, cut \in {0, 2}}

\* Chunks that end early, with two handlers: the records laid out last and
\* the chunk ending inside the second or the first of them; or the first
\* handler's bytecode laid out last and ending outside the chunk, because
\* the chunk is cut or the record declares more bytes than there are.
CutChunks ==
    {LscrSource(NoList, NoList, <<>>,
                <<SrcHandler(0, <<kOpPushInt8, 7, kOpRet>>, 3, NoList, NoList),
                  SrcHandler(1, <<kOpPushZero, kOpRet>>, 2, NoList, NoList)>>,
                <<"props", "globs", "consts", "code1", "args1", "locals1",
                  "code2", "args2", "locals2", "records">>, cut) :
        cut \in {0, 1, 42, 43, 84}}
      \cup
    {LscrSource(NoList, NoList, <<>>,
                <<SrcHandler(0, <<kOpPushInt8, 7, kOpRet>>, 3 + more, NoList, NoList),
                  SrcHandler(1, <<kOpPushZero, kOpRet>>, 2, NoList, NoList)>>,
                <<"props", "globs", "consts", "records", "code2", "args2",
                  "locals2", "args1", "locals1", "code1">>, cut) :
        more \in 0..2, cut \in 0..3}

\* A chunk shorter than the header.
ShortChunks ==
    {LscrSource(NoList, NoList, <<>>, <<>>,
                <<"props", "globs", "consts", "records">>, cut) : cut \in {1, 92}}

LscrSources ==
    ListChunks \cup NameChunks \cup ConstChunks \cup CodeChunks \cup CutChunks
      \cup ShortChunks

\* parse_lscr(data, names) is called on the bytes of a chunk with a name table.
LInit ==
    /\ DIdle
    /\ FIdle
    /\ lscr_src \in LscrSources
    /\ lscr_data = LscrBytes(lscr_src)
    /\ lscr_names \in NameTables
    /\ lpc = "start"
    /\ lscript = <<>>
    /\ h_idx = 0
    /\ operand_names = <<>>
    /\ NIdle
    /\ HIdle

LNext ==
    \/ LscrHeader
    \/ LscrHandler
    \/ LscrTruncated
    \/ LscrReturns
    \/ ResolveOperands

LSpec == LInit /\ [][LNext]_vars

----------------------------------------------------------------------------
(* Properties of the decompiler *)

\* The statements the instruction list ins yields when it is decompiled as
\* straight-line code, one _process_instruction after the other.
RECURSIVE LinearFrom(_, _, _, _, _)
LinearFrom(ins, i, stack, stmts, hd) ==
    IF i >= Len(ins) THEN stmts
    ELSE LET r == ProcessInstruction(BaseAt(ins, i), At(ins, i), ins, i,
                                     stack, stmts, hd)
         IN  LinearFrom(ins, i + 1, r.stack, r.stmts, hd)

LinearStmts(ins, stack, stmts, hd) == LinearFrom(ins, 0, stack, stmts, hd)

StmtsOf(ops) == LinearStmts(Decode(ops), <<>>, <<>>, MkHandler("go", 0, FALSE, ops))

OneHandler(ops) == MkScript(<<MkHandler("go", 0, FALSE, ops)>>, <<>>)

\* The body of the first HandlerNode of the result.
Body == handlers_out[1].body

KindCount(stmts, kind) == Cardinality({k \in 1..Len(stmts) : stmts[k].k = kind})

Max0(n) == IF n > 0 THEN n ELSE 0

C2_IfElseRecovered ==
    \A t \in StraightOps, e \in StraightOps, tail \in TailOps :
        (pc = "done" /\ script = OneHandler(IfElseOps(1, t, e, tail))) =>
            /\ KindCount(Body, "IfStmt") = 1
            /\ StmtsOf(t) # <<>>
            /\ StmtsOf(e) # <<>>
            /\ Body = <<IfStmt(IntLiteral(1), StmtsOf(t), StmtsOf(e))>>
                      \o StmtsOf(tail)

\* An if/else handler has been decompiled, with statements after the IfStmt.
C2_IfElseDone ==
    /\ pc = "done"
    /\ \E t \in StraightOps, e \in StraightOps, tail \in TailOps :
           /\ script = OneHandler(IfElseOps(1, t, e, tail))
           /\ StmtsOf(tail) # <<>>
    /\ Len(Body) = 2
    /\ Body[1].k = "IfStmt"
    /\ Body[1].then_body # <<>>
    /\ Body[1].else_body # <<>>

\* C3 (as the spec states it): no activation of _decompile_range has run its
\* loop more than 3*(end-start+1) times.
C3_IterationBound ==
    \A k \in 1..Len(frames) :
        frames[k].iteration <= 3 * (frames[k].end - frames[k].start + 1)

\* C3 (amended): every activation of _decompile_range has run its loop at
\* most 3*(end-start+1) times, and not at all when that number is negative
\* (a range whose end lies before its start); no chain of nested range calls
\* is longer than the depth ceiling allows; and decompile_ast returns.
C3_Terminates ==
    /\ [](\A k \in 1..Len(frames) :
            /\ frames[k].iteration
                   <= Max0(3 * (frames[k].end - frames[k].start + 1))
            /\ frames[k].depth = k - 1)
    /\ [](Len(frames) <= MaxDepth + 2)
    /\ <>(pc = "done")

\* A range whose jump goes backward has run into the iteration ceiling: it
\* still has instructions before its end and has used up its iterations.
C3_CeilingReached ==
    /\ pc = "range"
    /\ \E k \in 1..Len(frames) :
           /\ frames[k].i < frames[k].end
           /\ frames[k].iteration > 0
           /\ frames[k].iteration
                  = 3 * (frames[k].end - frames[k].start + 1)

\* C4: a range at depth 16 is decompiled by the linear pass: it starts at
\* start, each step goes on to the next instruction (so every instruction of
\* [start, end) is visited once, in increasing order), no step makes a nested
\* range call, it returns only at the end of the range, and the handler then
\* has a non-empty statement list and is not a stub of a raise.
C4_DepthSafety ==
    [][ LET n == Len(frames)
            callers_same ==
                /\ Len(frames') = n
                /\ SubSeq(frames', 1, n - 1) = SubSeq(frames, 1, n - 1)
        IN  /\ (frames # <<>> /\ Top.depth > MaxDepth) =>
                /\ Top.i >= Top.start
                /\ Len(frames') <= n
                /\ callers_same =>
                       /\ Top.i < Top.end
                       /\ Top'.i = Top.i + 1
                       /\ Top'.start = Top.start
                       /\ Top'.end = Top.end
                       /\ Top'.depth = Top.depth
                /\ ~callers_same => ~(Top.i < Top.end)
            /\ (frames' # <<>> /\ Top'.depth > MaxDepth /\ ~callers_same) =>
                   Top'.i = Top'.start
            /\ (pc' = "done" /\ linear_calls' > 0) =>
                   /\ Len(handlers_out') = 1
                   /\ handlers_out'[1].body # <<>>
      ]_vars

\* A handler whose conditionals nest 16 or more levels deep has been
\* decompiled: a range of it went the linear way, and its body has statements.
C4_DeepDone ==
    /\ pc = "done"
    /\ linear_calls > 0
    /\ \E n \in 16..MaxNest : script = OneHandler(NestOps(n))
    /\ Body # <<>>

\* C5 (as the spec states it): the result has one HandlerNode per input
\* handler, in input order, each carrying the input handler's name.
C5_NamesKept ==
    pc = "done" =>
        /\ Len(handlers_out) = Len(script.handlers)
        /\ \A k \in 1..Len(handlers_out) :
               handlers_out[k].name = script.handlers[k].name

\* C5 (amended): the result has one HandlerNode per input handler, in input
\* order; each carries the input handler's name, or handler_<name_id> when
\* that name is empty; a handler whose decompilation raises is a stub with an
\* empty body, and every other handler, also after a raising one, has the
\* statements of its instructions.
C5_FailureIsolated ==
    pc = "done" =>
        /\ Len(handlers_out) = Len(script.handlers)
        /\ \A k \in 1..Len(handlers_out) :
               LET hd == script.handlers[k]
               IN  /\ handlers_out[k].k = "HandlerNode"
                   /\ handlers_out[k].name =
                          (IF hd.name # "" THEN hd.name
                           ELSE "handler_" \o ToString(hd.name_id))
                   /\ hd.broken => handlers_out[k].body = <<>>
                   /\ (~hd.broken /\ hd \in SmallHandlers) =>
                          handlers_out[k].body =
                              LinearStmts(hd.instructions, <<>>, <<>>, hd)

\* A script whose first handler raised and whose second one did not has been
\* decompiled: a stub, then a handler with statements.
C5_StubThenHandler ==
    /\ pc = "done"
    /\ Len(script.handlers) = 2
    /\ script.handlers[1].broken
    /\ ~script.handlers[2].broken
    /\ Len(handlers_out) = 2
    /\ handlers_out[1].body = <<>>
    /\ handlers_out[2].body # <<>>

----------------------------------------------------------------------------
(* Properties of DirectorFile.parse *)

GoodTags == {"RIFX", "XFIR"}

\* parse() is over: it returned or an exception left it.
ParseOver == ppc \in {"returned", "raised"}

\* C6: a file whose tag is neither RIFX nor XFIR makes parse fail in
\* _parse_header with the 'Not a Director file' error, and no chunk entry,
\* key-table entry or cast library has been built then.
C6_BadTagFails ==
    file.tag \notin GoodTags =>
        \/ ppc = "header"
        \/ /\ ppc = "raised"
           /\ error = NotDirector
           /\ entries = <<>>
           /\ key_table = <<>>
           /\ cast_libraries = <<>>

\* parse has failed on a complete movie whose tag is RIFF.
C6_RiffRejected ==
    /\ ppc = "raised"
    /\ error = NotDirector
    /\ file.tag = "RIFF"
    /\ file.cut = "none"
    /\ file.chunks # <<>>

\* C7 (as the spec states it): for a file that starts with RIFX or XFIR no
\* exception leaves parse, whatever follows the tag.
C7_OnlyBadTagFatal ==
    file.tag \in GoodTags => ppc # "raised"

\* The members _parse_cast_lib is to store for the library lib: one per
\* populated slot whose CASt chunk is an entry and is all there, in slot order.
RECURSIVE WellFormedMembers(_, _)
WellFormedMembers(items, k) ==
    IF k > Len(items) THEN <<>>
    ELSE (IF MemberFault(entries, file.chunks, items[k].slot) = ""
          THEN << CastMember(items[k].num, items[k].slot,
                             entries[items[k].slot + 1].linked_entries) >>
          ELSE <<>>)
         \o WellFormedMembers(items, k + 1)

\* C8 (as the spec states it): in a movie whose only faults are CASt chunks
\* that end early (every slot of its CAS* tables is an entry), parse returns,
\* and every library with a backing chunk holds exactly the members of its
\* well-formed populated slots.
C8_MemberSkipped ==
    (/\ file \in MemberFiles
     /\ \A k \in 1..Len(file.chunks[3].slots) :
            file.chunks[3].slots[k] < Len(file.chunks)
     /\ ParseOver) =>
        /\ ppc = "returned"
        /\ \A j \in 1..Len(cast_libraries) :
               LET lib == cast_libraries[j]
               IN  (lib.lib_slot >= 0 /\ lib.lib_slot < Len(entries)) =>
                       lib.members =
                           WellFormedMembers(
                               SlotMap(file.chunks[lib.lib_slot + 1].slots, 1), 1)

\* Whether the triple t is one that links its owner to the entry id, in a
\* file of n entries, under a reading of `cast-library reference`:
\*   "code"  - at or above the bias with the fourcc CAS*; a linking id at or
\*             above the bias needs no valid owner id;
\*   "fourcc" - at or above the bias with the fourcc CAS*; both ids valid;
\*   "bias"  - at or above the bias; both ids valid.
Links(t, id, n, reading) ==
    /\ t.cast_slot = id
    /\ t.cast_slot < n
    /\ CASE reading = "code" ->
                \/ t.cast_slot < KeyBias /\ t.cast_file_slot < n
                \/ t.cast_slot >= KeyBias /\ t.cast_type # "CAS*"
         [] reading = "fourcc" ->
                /\ ~(t.cast_slot >= KeyBias /\ t.cast_type = "CAS*")
                /\ t.cast_file_slot < n
         [] OTHER ->
                /\ t.cast_slot < KeyBias
                /\ t.cast_file_slot < n

\* The owners of the triples of table that link to entry id, in table order.
RECURSIVE Owners(_, _, _, _)
Owners(table, id, n, reading) ==
    IF table = <<>> THEN <<>>
    ELSE (IF Links(table[1], id, n, reading)
          THEN << table[1].cast_file_slot >> ELSE <<>>)
         \o Owners(Tail(table), id, n, reading)

\* The KEY* table has been processed to its end.
KeysDone ==
    /\ ppc \in {"castlibs", "lnam", "lctx", "returned"}
    /\ FirstOfType(entries, "KEY*") # -1

\* C9 (as the spec states it): once the KEY* table is processed, the
\* linked_entries of every entry are the owners of the triples that are no
\* cast-library reference, have two valid ids and name that entry as linking
\* id, in table order; under either reading of `cast-library reference`.
C9_LinkedByValidTriples ==
    KeysDone =>
        \/ \A k \in 1..Len(entries) :
               entries[k].linked_entries =
                   Owners(key_table, k - 1, Len(entries), "bias")
        \/ \A k \in 1..Len(entries) :
               entries[k].linked_entries =
                   Owners(key_table, k - 1, Len(entries), "fourcc")

\* C9 (amended): at every point of the parse the linked_entries of every
\* entry are, in table order, the owners of the triples read so far whose
\* linking id is that entry and that are either below the bias with a valid
\* owner id, or at or above the bias with a fourcc other than CAS* (whatever
\* the owner id); and once the table is processed every triple of it is read.
C9_LinkedByTable ==
    /\ \A k \in 1..Len(entries) :
           entries[k].linked_entries =
               Owners(key_table, k - 1, Len(entries), "code")
    /\ KeysDone => key_table = KeyChunkOfFile.triples

\* The table is processed and an entry at or above the bias got two links,
\* one of them an id that is no entry.
C9_BigEntryLinked ==
    /\ KeysDone
    /\ \E k \in 1..Len(entries) :
           /\ k - 1 >= KeyBias
           /\ Len(entries[k].linked_entries) = 2
           /\ entries[k].linked_entries[1] # entries[k].linked_entries[2]
           /\ \E m \in 1..2 : entries[k].linked_entries[m] >= Len(entries)

\* The entries and the libraries a step changes.
ChangedEntries == {k \in 1..Len(entries) : entries'[k] # entries[k]}
ChangedLibraries ==
    {j \in 1..Len(cast_libraries) : cast_libraries'[j] # cast_libraries[j]}

\* The step is one pass of the loop of _parse_keys.
KeyStep == ppc = "keyloop" /\ key_pos' = key_pos + 1

\* The step appends owner to the linked_entries of the entry id, and changes
\* no other entry.
AppendsLink(id, owner) ==
    /\ ChangedEntries = {id + 1}
    /\ entries'[id + 1] =
           [entries[id + 1] EXCEPT !.linked_entries = Append(@, owner)]

\* The step sets the lib_slot of library number num to owner when that
\* library exists, and changes nothing else of any library.
SetsLibSlot(num, owner) ==
    /\ ChangedLibraries \subseteq {num + 1}
    /\ num < Len(cast_libraries) =>
           cast_libraries'[num + 1] =
               [cast_libraries[num + 1] EXCEPT !.lib_slot = owner]

\* C10 (as the spec states it): a triple whose linking id is at least 1024
\* sets the lib_slot of library (linking id - 1024) to the owner id when that
\* library exists and changes no linked_entries; every other triple changes
\* no library and appends the owner id to exactly one entry's linked_entries.
C10_BiasRule ==
    [][ KeyStep =>
          LET t == KeyChunkOfFile.triples[key_pos + 1]
          IN  /\ Len(entries') = Len(entries)
              /\ Len(cast_libraries') = Len(cast_libraries)
              /\ IF t.cast_slot >= KeyBias
                 THEN /\ ChangedEntries = {}
                      /\ SetsLibSlot(t.cast_slot - KeyBias, t.cast_file_slot)
                 ELSE /\ ChangedLibraries = {}
                      /\ \E id \in 0..(Len(entries) - 1) :
                             AppendsLink(id, t.cast_file_slot)
      ]_vars

\* C10 (amended): a triple whose linking id is at least 1024 and whose fourcc
\* is CAS* sets the lib_slot of library (linking id - 1024) to the owner id
\* when that library exists and changes no linked_entries; every other triple
\* changes no library, and it appends the owner id to the linked_entries of
\* the entry its linking id names, and to no other, when that id is an entry
\* and either is at least 1024 or the owner id is an entry too; else it
\* changes no entry.
C10_BiasRuleWithFourcc ==
    [][ KeyStep =>
          LET t == KeyChunkOfFile.triples[key_pos + 1]
              n == Len(entries)
          IN  /\ Len(entries') = n
              /\ Len(cast_libraries') = Len(cast_libraries)
              /\ IF t.cast_slot >= KeyBias /\ t.cast_type = "CAS*"
                 THEN /\ ChangedEntries = {}
                      /\ SetsLibSlot(t.cast_slot - KeyBias, t.cast_file_slot)
                 ELSE /\ ChangedLibraries = {}
                      /\ IF /\ t.cast_slot < n
                            /\ (t.cast_slot >= KeyBias \/ t.cast_file_slot < n)
                         THEN AppendsLink(t.cast_slot, t.cast_file_slot)
                         ELSE ChangedEntries = {}
      ]_vars

\* The loop of _parse_keys has just read a triple at the bias with a fourcc
\* other than CAS*: library 0 exists and still has no backing chunk.
C10_BiasedNotCas ==
    /\ ppc = "keyloop"
    /\ key_table # <<>>
    /\ LET t == key_table[Len(key_table)]
       IN  /\ t.cast_slot = KeyBias
           /\ t.cast_type # "CAS*"
    /\ cast_libraries # <<>>
    /\ cast_libraries[1].lib_slot = -1

\* The members stored in the libraries so far.
StoredMembers ==
    UNION {{cast_libraries[j].members[k] :
               k \in 1..Len(cast_libraries[j].members)} :
           j \in 1..Len(cast_libraries)}

\* C11: at every moment of parse(), and so when it returns, every CastMember
\* stored in a library has linked_entries equal, element for element, to the
\* linked_entries of its backing entry entries[file_slot]; once a member is
\* stored the KEY* table has been read to its end, and no step changes the
\* linked_entries of an entry from then on.
C11_MembersInheritLinks ==
    /\ [](\A m \in StoredMembers :
            /\ m.file_slot < Len(entries)
            /\ m.linked_entries = entries[m.file_slot + 1].linked_entries)
    /\ [](StoredMembers # {} =>
            \/ FirstOfType(entries, "KEY*") = -1
            \/ key_pos = Len(KeyChunkOfFile.triples))
    /\ [][StoredMembers # {} => entries' = entries]_vars

\* parse() has returned with a cast member that took a link over from its
\* backing entry.
C11_LinkedMemberReturned ==
    /\ ppc = "returned"
    /\ \E m \in StoredMembers : m.linked_entries # <<>>

----------------------------------------------------------------------------
(* Properties of the decompile command *)

\* The first Lnam and LctX chunks of the file, an empty chunk when none.
FirstChunk(type) ==
    LET hits == {k \in 1..Len(file.chunks) : file.chunks[k].type = type}
    IN  IF hits = {} THEN Chunk(type, FALSE)
        ELSE file.chunks[CHOOSE k \in hits : \A m \in hits : k <= m]

\* C12: an Lscr chunk is decoded only after parse() has returned, with the
\* name table and the script-context table built in full from the Lnam and
\* LctX chunks of the file; every script is decoded against that name table;
\* and no step taken after parse() has returned, decoding and decompiling a
\* script included, changes either table.
C12_TablesBeforeScripts ==
    /\ [](decoded # <<>> =>
            /\ ppc = "returned"
            /\ name_table = ValidNames(parse_lnam(FirstChunk("Lnam")))
            /\ script_contexts = parse_lctx(FirstChunk("LctX"))
            /\ \A k \in 1..Len(decoded) :
                   decoded[k].script.names \in {name_table, <<>>})
    /\ [][ppc = "returned" => /\ name_table' = name_table
                              /\ script_contexts' = script_contexts]_vars

\* Two scripts have been decoded against a name table and a script-context
\* table that are not empty.
C12_ScriptsDecoded ==
    /\ Len(decoded) = 2
    /\ name_table # <<>>
    /\ script_contexts # <<>>
    /\ decoded[1].script.names = name_table

\* C13: once DirectorFile.parse has returned, the object holds no open file
\* handle on the movie file.
C13_NoHandleKept == ppc = "returned" => ~cached_fh

----------------------------------------------------------------------------
(* Properties of repeated decompilation *)

----------------------------------------------------------------------------
(* Properties of constant resolution *)

\* The node the pool entry c stands for.
ConstantNode(c) ==
    IF c.type = 9 THEN FloatLiteral(c.value)
    ELSE IF c.type = 4 THEN IntLiteral(c.value)
    ELSE IntLiteral(0)

\* C17: a push-constant instruction with operand a addresses the pool at the
\* logical index a div 8; when that index is outside the pool it pushes
\* IntLiteral(0), and the handler is decompiled to its end, the statement
\* after the push included, with no stub.
C17_ConstantOrZero ==
    (pc = "done" /\ script \in ConstScripts) =>
        LET a == script.handlers[1].instructions[1].arg
            idx == a \div 8
            pool == script.constants
            x == Identifier("x")
        IN  /\ Len(handlers_out) = 1
            /\ Body = << AssignStmt(x, IF idx < Len(pool)
                                       THEN ConstantNode(pool[idx + 1])
                                       ELSE IntLiteral(0)),
                         AssignStmt(x, IntLiteral(7)) >>

\* A handler that pushes a constant from past the end of a pool that is not
\* empty has been decompiled.
C17_PastPoolDone ==
    /\ pc = "done"
    /\ script \in ConstScripts
    /\ script.constants # <<>>
    /\ script.constants[1] = ScriptConstant(4, 5)
    /\ script.handlers[1].instructions[1].arg \div 8 >= Len(script.constants)
    /\ Len(Body) = 2

----------------------------------------------------------------------------
(* Properties of parse_lscr *)

\* parse_lscr has read the header of a chunk that is long enough.
HeaderRead ==
    lpc \in {"handlers", "returned", "decompiled"} /\ Len(lscr_data) >= HeaderSize

\* The offset of the record of the k-th handler (k from 1).
RecordOffset(k) == FunctionsOffset + (k - 1) * HANDLER_RECORD_SIZE

\* The name the i-th entry (from 0) of the list at offset stands for.
EntryName(d, offset, i, nm) ==
    LET idx == S16At(d, offset + 2 * i)
    IN  IF 0 <= idx /\ idx < Len(nm) THEN nm[idx + 1]
        ELSE "name_" \o ToString(idx)

\* result is what the list at offset, declared with count entries, stands
\* for: the names before its first -1 entry if it has one, all count names
\* if it has none and lies inside the data.
ListAsDeclared(d, offset, count, nm, result) ==
    LET inside == {i \in 0..(count - 1) : offset + 2 * i + 2 <= Len(d)}
        sentinels == {i \in inside : S16At(d, offset + 2 * i) = -1}
    IN  /\ sentinels # {} =>
              LET k == CHOOSE i \in sentinels : \A j \in sentinels : i <= j
              IN  result = [i \in 1..k |-> EntryName(d, offset, i - 1, nm)]
        /\ (sentinels = {} /\ offset + 2 * count <= Len(d)) =>
              result = [i \in 1..count |-> EntryName(d, offset, i - 1, nm)]

\* C15: a name-index list declared with count N (at an offset other than 0,
\* which stands for "no list") whose first -1 entry is at position k < N
\* resolves to exactly the k names before it, in order; a list with no -1
\* among its N entries and all of them inside the chunk resolves to exactly
\* N names.  This holds for the property and global lists of the script and
\* for the argument and local lists of every handler.
C15_SentinelOrCount ==
    HeaderRead =>
        /\ PropertiesOffset # 0 =>
               ListAsDeclared(lscr_data, PropertiesOffset, PropertiesCount,
                              lscr_names, lscript.property_names)
        /\ GlobalsOffset # 0 =>
               ListAsDeclared(lscr_data, GlobalsOffset, GlobalsCount,
                              lscr_names, lscript.global_names)
        /\ \A k \in 1..Len(lscript.handlers) :
               LET arg_offset == U32At(lscr_data, RecordOffset(k) + 14)
                   var_offset == U32At(lscr_data, RecordOffset(k) + 20)
               IN  /\ arg_offset # 0 =>
                          ListAsDeclared(lscr_data, arg_offset,
                                         U16At(lscr_data, RecordOffset(k) + 12),
                                         lscr_names, lscript.handlers[k].arg_names)
                   /\ var_offset # 0 =>
                          ListAsDeclared(lscr_data, var_offset,
                                         U16At(lscr_data, RecordOffset(k) + 18),
                                         lscr_names, lscript.handlers[k].local_names)

\* parse_lscr has returned a script whose property list is declared with two
\* entries, the second of them -1, and resolved to one name, and whose
\* handler has an argument list of one entry, resolved to one name.
C15_SentinelSeen ==
    /\ lpc = "returned"
    /\ Len(lscr_data) >= HeaderSize
    /\ PropertiesOffset # 0
    /\ PropertiesCount = 2
    /\ PropertiesOffset + 4 <= Len(lscr_data)
    /\ S16At(lscr_data, PropertiesOffset) # -1
    /\ S16At(lscr_data, PropertiesOffset + 2) = -1
    /\ Len(lscript.property_names) = 1
    /\ Len(lscript.handlers) = 1
    /\ U16At(lscr_data, RecordOffset(1) + 12) = 1
    /\ Len(lscript.handlers[1].arg_names) = 1

\* idx is no index into the name table handed to parse_lscr.
OutOfRange(idx) == ~(0 <= idx /\ idx < Len(lscr_names))

\* The entries of the list at offset that were resolved to result: those
\* outside the name table became name_<idx>.
ListPlaceholders(d, offset, result) ==
    \A i \in 1..Len(result) :
        LET idx == S16At(d, offset + 2 * (i - 1))
        IN  OutOfRange(idx) => result[i] = "name_" \o ToString(idx)

IsNameOp(instr) == BaseOp(instr.opcode) \in NameOps

\* Every index outside the name table has become a placeholder: prefix and
\* the index in a handler record's name index, name_<idx> in the index lists
\* and in the operands that name a symbol, global, property or called
\* handler; and every record inside the chunk has given a handler.
PlaceholdersWith(prefix) ==
    HeaderRead =>
        /\ \A k \in 1..Len(lscript.handlers) :
               LET name_id == S16At(lscr_data, RecordOffset(k))
                   hd == lscript.handlers[k]
               IN  /\ OutOfRange(name_id) =>
                          hd.name = prefix \o ToString(name_id)
                   /\ ListPlaceholders(lscr_data,
                          U32At(lscr_data, RecordOffset(k) + 14), hd.arg_names)
                   /\ ListPlaceholders(lscr_data,
                          U32At(lscr_data, RecordOffset(k) + 20), hd.local_names)
        /\ ListPlaceholders(lscr_data, PropertiesOffset, lscript.property_names)
        /\ ListPlaceholders(lscr_data, GlobalsOffset, lscript.global_names)
        /\ lpc \in {"returned", "decompiled"} =>
               \A k \in 1..FunctionsCount :
                   RecordOffset(k) + HANDLER_RECORD_SIZE <= Len(lscr_data)
                       => k <= Len(lscript.handlers)
        /\ lpc = "decompiled" =>
               /\ Len(operand_names) = Len(lscript.handlers)
               /\ \A k \in 1..Len(lscript.handlers) :
                      LET ops == SelectSeq(lscript.handlers[k].instructions,
                                           IsNameOp)
                      IN  /\ Len(operand_names[k]) = Len(ops)
                          /\ \A j \in 1..Len(ops) :
                                 OutOfRange(ops[j].arg) =>
                                     operand_names[k][j]
                                         = "name_" \o ToString(ops[j].arg)

\* C16 as stated: an index outside [0, len(names)) resolves to name_<idx>
\* and never fails, in a handler record's name index, in a property, global,
\* argument or local index list, and in a bytecode operand that names a
\* global, property, symbol or called handler.
C16_NamePlaceholderEverywhere == PlaceholdersWith("name_")

\* C16: an index outside [0, len(names)) resolves to a placeholder and never
\* fails: to handler_<idx> in a handler record's name index, and to
\* name_<idx> in a property, global, argument or local index list and in a
\* bytecode operand that names a global, property, symbol or called handler.
C16_PlaceholderNames == PlaceholdersWith("handler_")

\* A handler whose record has the name index -3, whose local list holds -3
\* and whose instruction names symbol 200 has been read with a shorter name
\* table, and its operands have been resolved.
C16_PlaceholdersMade ==
    /\ lpc = "decompiled"
    /\ Len(lscr_data) >= HeaderSize
    /\ Len(lscript.handlers) = 1
    /\ S16At(lscr_data, RecordOffset(1)) = -3
    /\ lscript.handlers[1].name = "handler_-3"
    /\ lscript.handlers[1].local_names = <<"name_-3">>
    /\ Len(lscript.handlers[1].instructions) = 1
    /\ lscript.handlers[1].instructions[1].arg = 200
    /\ operand_names = << <<"name_200">> >>

\* The signed two's-complement reading of the 32-bit number at offset o,
\* from its halves hi and lo (the number is hi * 2^16 + lo): the number
\* itself below 2^31, that is when hi < 2^15, and the number - 2^32 otherwise.
SignedReading(d, o) ==
    LET hi == U16At(d, o)
        lo == U16At(d, o + 2)
    IN  IF hi < 32768 THEN hi * 65536 + lo ELSE (hi - 65536) * 65536 + lo

\* C18: a constant-pool entry of type 4 (integer) with the raw 32-bit value
\* V decodes to the signed two's-complement reading of V: V below 2^31, and
\* V - 2^32 otherwise.
C18_SignedInteger ==
    HeaderRead =>
        \A i \in 1..Len(lscript.constants) :
            LET tbl == ConstsOffset + 8 * (i - 1)
            IN  U32At(lscr_data, tbl) = 4 =>
                    /\ lscript.constants[i].type = 4
                    /\ lscript.constants[i].value = SignedReading(lscr_data, tbl + 4)

\* A pool whose first entry is the integer with the bytes FF FF FF FE and
\* whose second is the one with the bytes 80 00 00 01 has been parsed.
C18_NegativeParsed ==
    /\ lpc = "returned"
    /\ Len(lscr_data) >= HeaderSize
    /\ Len(lscript.constants) = 2
    /\ U32At(lscr_data, ConstsOffset) = 4
    /\ SubSeq(lscr_data, ConstsOffset + 5, ConstsOffset + 8) = <<255, 255, 255, 254>>
    /\ lscript.constants[1].value = -2
    /\ U32At(lscr_data, ConstsOffset + 8) = 4
    /\ SubSeq(lscr_data, ConstsOffset + 13, ConstsOffset + 16) = <<128, 0, 0, 1>>
    /\ lscript.constants[2].value = -2147483647

\* The operand width of an opcode byte.
OperandWidth(op) ==
    IF op \in {kOpPushInt32, kOpPushFloat32, kOpPushInt32 + 64,
               kOpPushFloat32 + 64} THEN 4
    ELSE IF op >= 128 THEN 2
    ELSE IF op >= 64 THEN 1
    ELSE 0

\* C19: in every handler parse_lscr decodes, each instruction's operand is
\* 4 bytes for push-int32 and push-float32 in both their forms, otherwise 2
\* bytes for opcodes >= 0x80, 1 byte for opcodes in [0x40, 0x80) and none
\* for the others; the opcode is the byte of the chunk at the instruction's
\* offset; the first offset is 0 and each later one is the previous offset
\* + 1 + the previous operand width, so the offsets strictly increase and
\* the offset-to-index map of _decompile_handler is one-to-one.
C19_VariableWidth ==
    HeaderRead =>
        \A k \in 1..Len(lscript.handlers) :
            LET ins == lscript.handlers[k].instructions
                code == U32At(lscr_data, RecordOffset(k) + 8)
                map == BuildOffsetMap(ins)
            IN  /\ ins # <<>> => ins[1].offset = 0
                /\ \A i \in 1..Len(ins) :
                       /\ ins[i].opcode = lscr_data[code + ins[i].offset + 1]
                       /\ ins[i].arg_bytes = OperandWidth(ins[i].opcode)
                       /\ map[ins[i].offset] = i - 1
                /\ \A i \in 2..Len(ins) :
                       /\ ins[i].offset
                              = ins[i - 1].offset + 1 + ins[i - 1].arg_bytes
                       /\ ins[i].offset > ins[i - 1].offset
                /\ Cardinality(DOMAIN map) = Len(ins)

\* A handler of three instructions has been decoded: push-int32 in its 0x80+
\* form at offset 0, a 2-byte-operand opcode at offset 5 and an opcode
\* without operand at offset 8.
C19_MixedWidthsDecoded ==
    /\ lpc = "returned"
    /\ Len(lscr_data) >= HeaderSize
    /\ Len(lscript.handlers) = 1
    /\ LET ins == lscript.handlers[1].instructions
       IN  /\ Len(ins) = 3
           /\ ins[1].opcode = kOpPushInt32 + 64
           /\ ins[1].arg = -2
           /\ ins[2].opcode = kOpPushInt8 + 64
           /\ ins[2].offset = 5
           /\ ins[3].opcode = kOpRet
           /\ ins[3].offset = 8

\* The record of the k-th handler, or the bytecode it declares, runs past
\* the end of the chunk.
Overruns(k) ==
    \/ RecordOffset(k) + HANDLER_RECORD_SIZE > Len(lscr_data)
    \/ U32At(lscr_data, RecordOffset(k) + 8) + U32At(lscr_data, RecordOffset(k) + 4)
           > Len(lscr_data)

\* C20: when the k-th handler is the first whose record or instruction
\* stream overruns the chunk, parse_lscr returns the handlers decoded before
\* it (with or without what it decoded of the k-th), and none after it:
\* decoding has stopped at that handler.
C20_StopsAtOverrun ==
    (lpc = "returned" /\ Len(lscr_data) >= HeaderSize) =>
        \A k \in 1..FunctionsCount :
            (Overruns(k) /\ \A j \in 1..(k - 1) : ~Overruns(j)) =>
                /\ Len(lscript.handlers) >= k - 1
                /\ Len(lscript.handlers) <= k

----------------------------------------------------------------------------
(* parse_lnam: reading the bytes of an Lnam chunk *)

LnamHeaderSize == 20

\* names_offset and name_count as parse_lnam reads them, 0 standing for the
\* default offset.
LnamNamesOffset(d) == IF U16At(d, 16) = 0 THEN LnamHeaderSize ELSE U16At(d, 16)
LnamNameCount(d) == U16At(d, 18)

\* A loop body that keeps what there is of a string the chunk ends in.
LnamPassPartial(d, offset) ==
    IF offset >= Len(d) THEN [brk |-> TRUE, offset |-> offset, name |-> <<>>]
    ELSE [brk |-> FALSE,
          offset |-> offset + 1 + d[offset + 1],
          name |-> Slice(d, offset + 1, offset + 1 + d[offset + 1])]

\* One pass of the loop body of parse_lnam at offset: whether it breaks, and
\* otherwise the name it appends (data[offset : offset + str_len], whose
\* latin-1 decoding has one character per byte, of the same number) and the
\* offset after it.
LnamPass(d, offset) ==
    IF offset >= Len(d) THEN [brk |-> TRUE, offset |-> offset, name |-> <<>>]
    ELSE LET str_len == d[offset + 1]
         IN  IF offset + 1 + str_len > Len(d)
             THEN [brk |-> TRUE, offset |-> offset + 1, name |-> <<>>]
             ELSE [brk |-> FALSE,
                   offset |-> offset + 1 + str_len,
                   name |-> Slice(d, offset + 1, offset + 1 + str_len)]

\* parse_lnam up to its loop: the size test and the header.
LnamHeader ==
    /\ npc = "start"
    /\ IF Len(lnam_data) < LnamHeaderSize
       THEN /\ npc' = "returned"
            /\ UNCHANGED lnam_offset
       ELSE /\ npc' = "loop"
            /\ lnam_offset' = LnamNamesOffset(lnam_data)
    /\ lnam_names' = <<>>
    /\ UNCHANGED <<lnam_data, dvars, fvars, svars,
                   hvars>>

\* One pass of `for _ in range(name_count)` that appends a name.
LnamName ==
    /\ npc = "loop"
    /\ Len(lnam_names) < LnamNameCount(lnam_data)
    /\ LET pass == LnamPass(lnam_data, lnam_offset)
       IN  /\ ~pass.brk
           /\ lnam_names' = Append(lnam_names, pass.name)
           /\ lnam_offset' = pass.offset
    /\ UNCHANGED <<lnam_data, npc, dvars, fvars, svars,
                   hvars>>

\* The pass breaks: the chunk ends before or inside the next string.
LnamBreak ==
    /\ npc = "loop"
    /\ Len(lnam_names) < LnamNameCount(lnam_data)
    /\ LET pass == LnamPass(lnam_data, lnam_offset)
       IN  /\ pass.brk
           /\ lnam_offset' = pass.offset
    /\ npc' = "returned"
    /\ UNCHANGED <<lnam_data, lnam_names, dvars, fvars, svars,
                   hvars>>

\* The loop is over: `return names`.
LnamReturns ==
    /\ npc = "loop"
    /\ Len(lnam_names) = LnamNameCount(lnam_data)
    /\ npc' = "returned"
    /\ UNCHANGED <<lnam_data, lnam_offset, lnam_names, dvars, fvars, svars,
                   hvars>>

----------------------------------------------------------------------------
(* The Lnam chunks handed to parse_lnam *)

\* The names written into a chunk: "", "go", "x".
NameBytes == {<<>>, <<103, 111>>, <<120>>}

\* A Pascal string: the length byte, then the characters.
RECURSIVE PascalStrings(_)
PascalStrings(names) ==
    IF names = <<>> THEN <<>>
    ELSE << Len(names[1]) >> \o names[1] \o PascalStrings(Tail(names))

\* What a chunk is written from: the names, the count and the offset the
\* header declares (the strings start at the declared offset, at 20 when it
\* is 0, and at 20 when it is past the chunk), and the bytes missing at the
\* end.
LnamSource(names, count, names_offset, cut) ==
    [names |-> names, count |-> count, names_offset |-> names_offset, cut |-> cut]

LnamBytes(q) ==
    LET all == Zeros(16) \o PackU16(q.names_offset) \o PackU16(q.count)
               \o (IF q.names_offset = LnamHeaderSize + 4 THEN Zeros(4) ELSE <<>>)
               \o PascalStrings(q.names)
    IN  SubSeq(all, 1, Len(all) - q.cut)

LnamSources ==
    {LnamSource(names, count, names_offset, cut) :
        names \in SeqsUpTo(NameBytes, MaxNames), count \in 0..(MaxNames + 1),
        names_offset \in {0, LnamHeaderSize, LnamHeaderSize + 4, 200},
        cut \in 0..3}

NInit ==
    /\ DIdle
    /\ FIdle
    /\ SIdle
    /\ HIdle
    /\ lnam_data \in {LnamBytes(q) : q \in LnamSources}
    /\ npc = "start"
    /\ lnam_offset = 0
    /\ lnam_names = <<>>

NNext ==
    \/ LnamHeader
    \/ LnamName
    \/ LnamBreak
    \/ LnamReturns

NSpec == NInit /\ [][NNext]_vars

----------------------------------------------------------------------------
(* Properties of parse_lnam *)

\* Where the i-th of the names (from 1) starts when they lie one after the
\* other from offset on, each after its length byte.
RECURSIVE NameStart(_, _, _)
NameStart(names, offset, i) ==
    IF i = 1 THEN offset
    ELSE NameStart(names, offset, i - 1) + 1 + Len(names[i - 1])

\* The Pascal string at offset lies inside the data.
CompleteAt(d, offset) ==
    offset < Len(d) /\ offset + 1 + d[offset + 1] <= Len(d)

\* C21: parse_lnam returns at most the declared number of names; they are,
\* in order, the strings that lie in the chunk one after the other from the
\* names offset on; and when they are fewer than declared, the chunk ends
\* before or inside the string after them: exactly the names complete
\* before the truncation point are returned.  A chunk shorter than the
\* header gives no names.  parse_lnam returns for every chunk.
C21_CompleteNamesOnly ==
    npc = "returned" =>
        IF Len(lnam_data) < LnamHeaderSize THEN lnam_names = <<>>
        ELSE LET d == lnam_data
                 first == IF U16At(d, 16) = 0 THEN 20 ELSE U16At(d, 16)
                 n == Len(lnam_names)
             IN  /\ n <= U16At(d, 18)
                 /\ \A i \in 1..n :
                        LET o == NameStart(lnam_names, first, i)
                        IN  /\ CompleteAt(d, o)
                            /\ d[o + 1] = Len(lnam_names[i])
                            /\ lnam_names[i] = SubSeq(d, o + 2, o + 1 + d[o + 1])
                 /\ n < U16At(d, 18) =>
                        ~CompleteAt(d, NameStart(lnam_names, first, n + 1))

\* parse_lnam has returned one name of the two declared: the chunk ends
\* inside the second string.
C21_CutInsideSecond ==
    /\ npc = "returned"
    /\ Len(lnam_data) >= LnamHeaderSize
    /\ U16At(lnam_data, 18) = 2
    /\ lnam_names = << <<103, 111>> >>
    /\ NameStart(lnam_names, 20, 2) < Len(lnam_data)
    /\ lnam_data[NameStart(lnam_names, 20, 2) + 1] = 2

----------------------------------------------------------------------------
(* Properties of DirectorFile.parse and of the cached handle *)

\* The memory map lists no MCsL chunk.
NoMcsl == \A k \in 1..Len(entries) : entries[k].type # "MCsL"

\* C22: once _parse_metadata has returned, whatever parse() is at after it,
\* cast_libraries is not empty; and when the file has no MCsL chunk,
\* cast_libraries is one library, number 0, named "Standalone", from then
\* on and after parse.
C22_StandaloneFallback ==
    ppc \in {"keys", "keyloop", "castlibs", "lnam", "lctx", "returned"} =>
        /\ cast_libraries # <<>>
        /\ NoMcsl =>
               /\ Len(cast_libraries) = 1
               /\ cast_libraries[1].id = 0
               /\ cast_libraries[1].name = "Standalone"

\* parse() has returned for a movie that has chunks but no MCsL chunk.
C22_StandaloneParsed ==
    /\ ppc = "returned"
    /\ entries # <<>>
    /\ NoMcsl
    /\ cast_libraries = << CastLibrary(0, "Standalone") >>

----------------------------------------------------------------------------
(* More properties of the decompiler *)

\* How many statements of stmts, at any depth, assign to the variable name.
RECURSIVE AssignCount(_, _)
AssignCount(stmts, name) ==
    IF stmts = <<>> THEN 0
    ELSE LET st == stmts[1]
         IN  (CASE st.k = "AssignStmt" ->
                      IF st.target = Identifier(name) THEN 1 ELSE 0
                [] st.k = "IfStmt" ->
                      AssignCount(st.then_body, name)
                          + AssignCount(st.else_body, name)
                [] st.k = "RepeatWhileStmt" -> AssignCount(st.body, name)
                [] OTHER -> 0)
             + AssignCount(Tail(stmts), name)

TaggedScript ==
    /\ Len(script.handlers) = 1
    /\ \E ops \in TaggedOps : script.handlers[1].instructions = Decode(ops)

\* C23: in a handler whose stores each go to a local of their own, the
\* decompiled body holds at most one statement per store, at any depth: an
\* instruction whose range was delegated to a recursive range call is not
\* processed by the enclosing range as well.
C23_OneStatementPerStore ==
    (pc = "done" /\ TaggedScript) =>
        \A name \in {"x", "local_1", "local_2"} : AssignCount(Body, name) <= 1

\* The index of the instruction of ins at byte offset off, the number of
\* instructions when there is none.
ResolvedTarget(ins, off) ==
    IF \E k \in 1..Len(ins) : ins[k].offset = off
    THEN (CHOOSE k \in 1..Len(ins) : ins[k].offset = off) - 1
    ELSE Len(ins)

\* Block discovery has run for the handler at hand, whose instructions are
\* ins: for every JmpIfZ at index i, whose target resolves to the index t,
\* the block has cond_idx = i and else_idx = t; has_else holds exactly when
\* elseWhen(ins, t) does, end_idx is then the resolved target of the Jmp
\* before t, and t otherwise.
IfBlocksAre(elseWhen(_, _)) ==
    (pc = "range" /\ h < Len(script.handlers)) =>
        LET ins == script.handlers[h + 1].instructions
        IN  /\ DOMAIN if_blocks
                   = {i \in 0..(Len(ins) - 1) : BaseOp(ins[i + 1].opcode) = kOpJmpIfZ}
            /\ \A i \in DOMAIN if_blocks :
                   LET t == ResolvedTarget(ins, ins[i + 1].arg)
                       b == if_blocks[i]
                   IN  /\ b.cond_idx = i
                       /\ b.else_idx = t
                       /\ IF elseWhen(ins, t)
                          THEN /\ b.has_else
                               /\ b.end_idx = ResolvedTarget(ins, ins[t].arg)
                          ELSE /\ ~b.has_else
                               /\ b.end_idx = t

\* The instruction just before index t is an unconditional Jmp.
JmpBefore(ins, t) == t > 0 /\ BaseOp(ins[t].opcode) = kOpJmp

\* ... and that Jmp goes to an instruction after index t.
ForwardJmpBefore(ins, t) ==
    JmpBefore(ins, t) /\ ResolvedTarget(ins, ins[t].arg) > t

\* C24 as stated: has_else exactly when the instruction just before the
\* resolved target is an unconditional Jmp, end_idx then being that Jmp's
\* resolved target; otherwise has_else is false and end_idx = else_idx.
C24_ElseWhenJmpBefore == IfBlocksAre(JmpBefore)

\* C24: has_else exactly when the instruction just before the resolved
\* target is an unconditional Jmp whose own resolved target lies after the
\* resolved target of the JmpIfZ, end_idx then being that Jmp's resolved
\* target; otherwise has_else is false and end_idx = else_idx = the resolved
\* target.
C24_ElseWhenForwardJmp == IfBlocksAre(ForwardJmpBefore)

\* Block discovery has met a JmpIfZ whose target follows a Jmp that goes
\* back to the condition, and recorded no else branch for it.
C24_BackJmpNoElse ==
    /\ pc = "range"
    /\ h < Len(script.handlers)
    /\ \E i \in DOMAIN if_blocks :
           LET ins == script.handlers[h + 1].instructions
               t == if_blocks[i].else_idx
           IN  /\ Len(ins) = 7
               /\ JmpBefore(ins, t)
               /\ ResolvedTarget(ins, ins[t].arg) = 0
               /\ ~if_blocks[i].has_else
               /\ if_blocks[i].end_idx = t

----------------------------------------------------------------------------
(* Calls *)

CallFamily == {kOpExtCall, kOpLocalCall, kOpObjCall}

\* The running activation has just taken one instruction, a call.
CallProcessed ==
    /\ pc = "range" /\ pc' = "range"
    /\ h' = h
    /\ Len(frames') = Len(frames)
    /\ Top.i < Len(Instrs)
    /\ BaseAt(Instrs, Top.i) \in CallFamily
    /\ Top'.i = Top.i + 1

\* The markers in the nine instructions before index i.
MarkersInWindow(i) ==
    {j \in 0..(i - 1) :
        /\ i - j <= 9
        /\ BaseAt(Instrs, j) \in {kOpPushArgList, kOpPushArgListNoRet}}

\* The top n nodes of the stack, bottom first, with 0 literals in front for
\* the ones the stack does not hold.
TopNodes(stack, n) ==
    [q \in 1..n |->
        IF q <= n - Len(stack) THEN IntLiteral(0)
        ELSE stack[Len(stack) - n + q]]

ArgsOfCall(node) ==
    IF node.k = "MethodCall" THEN <<node.obj>> \o node.args ELSE node.args

\* C25: a call takes as many arguments as the operand of the nearest
\* argument-list marker among the nine instructions before it says, and none
\* when there is no marker there; the arguments are the top nodes of the
\* stack in the order they were pushed; after a no-return marker the call is
\* appended as a statement, after a returning marker it is pushed.
C25_CallArguments ==
    [][CallProcessed =>
        LET f == Top
            g == Top'
            win == MarkersInWindow(f.i)
            m == CHOOSE j \in win : \A x \in win : x <= j
            n == IF win = {} THEN 0 ELSE At(Instrs, m).arg
            rest == SubSeq(f.stack, 1, Len(f.stack) - n)
            as_stmt == /\ Len(g.statements) = Len(f.statements) + 1
                       /\ g.statements[Len(g.statements)].k = "CallStmt"
                       /\ g.stack = rest
            as_value == /\ g.statements = f.statements
                        /\ g.stack # <<>>
                        /\ SubSeq(g.stack, 1, Len(g.stack) - 1) = rest
            node == IF as_stmt THEN g.statements[Len(g.statements)].call
                    ELSE g.stack[Len(g.stack)]
        IN  /\ as_stmt \/ as_value
            /\ node.k \in {"FunctionCall", "MethodCall"}
            /\ ArgsOfCall(node) = TopNodes(f.stack, n)
            /\ win # {} =>
                 IF BaseAt(Instrs, m) = kOpPushArgListNoRet
                 THEN as_stmt ELSE as_value]_vars

\* A call whose returning marker of two arguments sits nine instructions
\* before it was pushed with the arguments 2 and 3 of the pushed 1, 2, 3.
C25_MarkerAtWindowEdge ==
    /\ pc = "range"
    /\ Top.i >= 10
    /\ Top.i <= Len(Instrs)
    /\ BaseAt(Instrs, Top.i - 1) = kOpExtCall
    /\ MarkersInWindow(Top.i - 1) = {Top.i - 10}
    /\ At(Instrs, Top.i - 10).opcode = kOpPushArgList
    /\ Top.stack = << IntLiteral(1),
                      FunctionCall("foo", <<IntLiteral(2), IntLiteral(3)>>) >>

----------------------------------------------------------------------------
(* Binary opcodes *)

\* The running activation has just taken one instruction, a binary opcode.
BinaryProcessed ==
    /\ pc = "range" /\ pc' = "range"
    /\ h' = h
    /\ Len(frames') = Len(frames)
    /\ Top.i < Len(Instrs)
    /\ BaseAt(Instrs, Top.i) \in BinaryOps
    /\ Top'.i = Top.i + 1

\* The node d places below the top of the stack, a 0 literal when the stack
\* does not hold it.
NodeBelowTop(stack, d) ==
    IF Len(stack) > d THEN stack[Len(stack) - d] ELSE IntLiteral(0)

\* C26: a binary opcode takes the top of the stack as the right operand and
\* the node below it as the left operand and pushes one BinaryOp node that
\* holds both as they are, whatever they are; no statement is added, and a
\* stack of two or more nodes gets one node shorter.
C26_BinaryPopsRightThenLeft ==
    [][BinaryProcessed =>
        LET f == Top
            g == Top'
            node == g.stack[Len(g.stack)]
        IN  /\ g.stack # <<>>
            /\ node.k = "BinaryOp"
            /\ node.right = NodeBelowTop(f.stack, 0)
            /\ node.left = NodeBelowTop(f.stack, 1)
            /\ SubSeq(g.stack, 1, Len(g.stack) - 1)
                   = SubSeq(f.stack, 1, Len(f.stack) - 2)
            /\ g.statements = f.statements
            /\ Len(f.stack) >= 2 => Len(g.stack) = Len(f.stack) - 1]_vars

\* The addition of the pushed 1 and 2 has left the node 1 + 2 on the stack.
C26_AdditionKept ==
    /\ pc = "range"
    /\ Top.i = 3
    /\ BaseAt(Instrs, 2) = kOpAdd
    /\ Top.stack = << BinaryOp("+", IntLiteral(1), IntLiteral(2)) >>

----------------------------------------------------------------------------
(* Rendering of binary operations *)

InParens(text, wrap) == IF wrap THEN "(" \o text \o ")" ELSE text

\* The text of a BinaryOp over two operand texts.
Infix(left, base_op, right) == left \o " " \o BinarySymbol(base_op) \o " " \o right

Prec(base_op) == OpPrecedence(BinarySymbol(base_op))

\* The text decompile() returns for a script of one handler go whose body
\* is the one line `set x = <value>`.
SetXText(value) == "on go\n  set x = " \o value \o "\nend"

\* The handler is: push 1, push 2, <b>, store.
IsFlat(ins) ==
    /\ Len(ins) = 4
    /\ ins[1] = [offset |-> 0, opcode |-> kOpPushInt8, arg |-> 1]
    /\ ins[2].opcode = kOpPushInt8 /\ ins[2].arg = 2
    /\ ins[3].opcode \in BinaryOps
    /\ ins[4].opcode = kOpSetLocal

\* The handler is: push 1, push 2, <b1>, push 3, <b2>, store.
IsLeftNested(ins) ==
    /\ Len(ins) = 6
    /\ ins[1].opcode = kOpPushInt8 /\ ins[2].opcode = kOpPushInt8
    /\ ins[3].opcode \in BinaryOps
    /\ ins[4].opcode = kOpPushInt8
    /\ ins[5].opcode \in BinaryOps
    /\ ins[6].opcode = kOpSetLocal

\* The handler is: push 1, push 2, push 3, <b1>, <b2>, store.
IsRightNested(ins) ==
    /\ Len(ins) = 6
    /\ ins[1].opcode = kOpPushInt8 /\ ins[2].opcode = kOpPushInt8
    /\ ins[3].opcode = kOpPushInt8
    /\ ins[4].opcode \in BinaryOps
    /\ ins[5].opcode \in BinaryOps
    /\ ins[6].opcode = kOpSetLocal

Rendered ==
    /\ pc = "done"
    /\ script \in BinaryScripts
    /\ texts # <<>>

\* C27: in the text of a binary operation a left operand that is a binary
\* operation stands in parentheses exactly when its precedence is lower than
\* the parent's, a right operand that is one exactly when its precedence is
\* lower than or equal to the parent's, and an operand that is no binary
\* operation never does: the stored 1 + 2 is the line `set x = 1 + 2`.
C27_ParenthesesByPrecedence ==
    Rendered =>
        LET ins == script.handlers[1].instructions
            text == texts[Len(texts)]
        IN  /\ IsFlat(ins) =>
                  text = SetXText(Infix("1", ins[3].opcode, "2"))
            /\ IsLeftNested(ins) =>
                  text = SetXText(Infix(
                      InParens(Infix("1", ins[3].opcode, "2"),
                               Prec(ins[3].opcode) < Prec(ins[5].opcode)),
                      ins[5].opcode, "3"))
            /\ IsRightNested(ins) =>
                  text = SetXText(Infix("1", ins[5].opcode,
                      InParens(Infix("2", ins[4].opcode, "3"),
                               Prec(ins[4].opcode) <= Prec(ins[5].opcode))))

\* 1 - (2 - 3) has been rendered with its parentheses, the right operand
\* having the precedence of its parent.
C27_EqualPrecedenceOnTheRight ==
    /\ Rendered
    /\ IsRightNested(script.handlers[1].instructions)
    /\ texts[Len(texts)] = "on go\n  set x = 1 - (2 - 3)\nend"

----------------------------------------------------------------------------
(* The operand stack *)

\* The running activation has just taken the instruction at its index i, one
\* of ops, through _process_instruction.
Took(ops) ==
    /\ pc = "range" /\ pc' = "range"
    /\ h' = h
    /\ Len(frames') = Len(frames)
    /\ Top.i < Top.end
    /\ BaseAt(Instrs, Top.i) \in ops
    /\ Top'.i = Top.i + 1
    /\ Top'.start = Top.start /\ Top'.depth = Top.depth

\* The running activation has just entered the if block at its index i.
EnteredIf ==
    /\ pc = "range" /\ pc' = "range"
    /\ h' = h
    /\ Len(frames') = Len(frames) + 1
    /\ Top.i < Top.end
    /\ BaseAt(Instrs, Top.i) = kOpJmpIfZ
    /\ Top.i \in DOMAIN if_blocks

\* An activation that has taken no instruction yet has an empty stack and
\* no statements.
StartsEmpty(f) ==
    (f.i = f.start /\ f.iteration = 0 /\ f.wait = "none")
        => f.stack = <<>> /\ f.statements = <<>>

\* C28: a pop of an empty stack gives the literal 0 and leaves the stack
\* empty: a store to a local then assigns 0, a binary opcode then builds its
\* node over 0 literals for the operands the stack does not hold, an if
\* block then gets the condition 0, and a Pop opcode does nothing; every
\* activation of _decompile_range begins with an empty stack of its own.
C28_PopNeverFails ==
    [][ /\ \A k \in 1..Len(frames') : StartsEmpty(frames'[k])
        /\ (Took({kOpSetLocal}) /\ Top.stack = <<>>) =>
               /\ Top'.stack = <<>>
               /\ Len(Top'.statements) = Len(Top.statements) + 1
               /\ Top'.statements[Len(Top'.statements)].value = IntLiteral(0)
        /\ (Took(BinaryOps) /\ Len(Top.stack) < 2) =>
               /\ Len(Top'.stack) = 1
               /\ Top'.stack[1].left = IntLiteral(0)
               /\ Top'.stack[1].right = NodeBelowTop(Top.stack, 0)
        /\ (Took({kOpPop}) /\ Top.stack = <<>>) =>
               /\ Top'.stack = <<>>
               /\ Top'.statements = Top.statements
        /\ (EnteredIf /\ Top.stack = <<>>) =>
               /\ frames'[Len(frames)].cond = IntLiteral(0)
               /\ frames'[Len(frames)].stack = <<>>
               /\ Top'.stack = <<>> ]_vars

\* The then branch of a conditional is being decompiled on an empty stack
\* while the activation around it holds a node, and a store on an empty
\* stack has assigned 0.
C28_NestedRangeOnEmptyStack ==
    /\ pc = "range"
    /\ Len(frames) = 2
    /\ frames[1].stack # <<>>
    /\ Top.stack = <<>>
    /\ Top.statements # <<>>
    /\ Top.statements[1].k = "AssignStmt"
    /\ Top.statements[1].value = IntLiteral(0)

----------------------------------------------------------------------------
(* Jump operands that are no instruction offset *)

IsStray(ins, off) == \A k \in 1..Len(ins) : ins[k].offset # off

StrayAt(ins, i, op) ==
    /\ BaseOp(ins[i + 1].opcode) = op
    /\ IsStray(ins, ins[i + 1].arg)

\* The indices below i that hold a JmpIfZ.
JmpIfZBelow(ins, i) ==
    {k \in 0..(i - 1) : BaseOp(ins[k + 1].opcode) = kOpJmpIfZ}

\* C29: block discovery records a block for every JmpIfZ and every
\* EndRepeat, whatever their operands.  A JmpIfZ whose operand is no
\* instruction offset gets else_idx = the number of instructions; a Jmp
\* before the resolved target of a JmpIfZ whose operand is none closes the
\* then branch at the number of instructions (an else branch exists when
\* that lies after the target); an EndRepeat whose operand is none starts
\* its search for the loop's JmpIfZ at index 0.
C29_StrayOperandsResolve ==
    (pc = "range" /\ h < Len(script.handlers)) =>
        LET ins == script.handlers[h + 1].instructions
            n == Len(ins)
        IN  /\ DOMAIN if_blocks
                   = {i \in 0..(n - 1) : BaseOp(ins[i + 1].opcode) = kOpJmpIfZ}
            /\ DOMAIN repeat_blocks
                   = {i \in 0..(n - 1) : BaseOp(ins[i + 1].opcode) = kOpEndRepeat}
            /\ \A i \in DOMAIN if_blocks :
                   LET b == if_blocks[i]
                       t == b.else_idx
                   IN  /\ StrayAt(ins, i, kOpJmpIfZ) => t = n
                       /\ (t > 0 /\ StrayAt(ins, t - 1, kOpJmp)) =>
                              /\ b.has_else = (n > t)
                              /\ b.end_idx = n
            /\ \A i \in DOMAIN repeat_blocks :
                   StrayAt(ins, i, kOpEndRepeat) =>
                       LET below == JmpIfZBelow(ins, i)
                       IN  repeat_blocks[i].start_idx =
                               IF below = {} THEN 0
                               ELSE (CHOOSE k \in below : \A m \in below : k <= m) + 1

\* Block discovery has run on a handler whose JmpIfZ, Jmp and EndRepeat all
\* carry the operand 13, inside the last instruction: the conditional ends
\* at the end of the handler and the loop is searched from index 0.
C29_AllThreeStray ==
    /\ pc = "range"
    /\ h < Len(script.handlers)
    /\ Len(Instrs) = 6
    /\ StrayAt(Instrs, 1, kOpJmpIfZ)
    /\ StrayAt(Instrs, 4, kOpJmp)
    /\ StrayAt(Instrs, 5, kOpEndRepeat)
    /\ At(Instrs, 5).arg = 13
    /\ if_blocks[1].else_idx = 6
    /\ ~if_blocks[1].has_else
    /\ repeat_blocks[5].start_idx = 2

----------------------------------------------------------------------------
(* The cached read handle *)

OpenHandles == {k \in 1..Len(fh_log) : fh_log[k] = "open"}

\* A call has just been made; it is the last of fh_calls'.
Called(names) ==
    /\ Len(fh_calls') = Len(fh_calls) + 1
    /\ fh_calls'[Len(fh_calls')].call \in names

LastCall == fh_calls'[Len(fh_calls')]

Reads == {"get_entry_data", "get_raw_chunk"}

\* C30: at most one handle is open at any time, and it is the cached one.
\* A read that gets past its look at self.entries opens a handle exactly
\* when none is cached, a new one, and leaves a handle cached; a read that
\* raises IndexError touches nothing; close() leaves no handle open and
\* none cached, opens none, and changes nothing when none was cached.
C30_HandleLifecycle ==
    [][ /\ Cardinality(OpenHandles') <= 1
        /\ cached_fh' = (OpenHandles' = {Len(fh_log')} /\ fh_log' # <<>>)
        /\ (Called(Reads) /\ LastCall.raised # "IndexError") =>
               /\ cached_fh'
               /\ IF cached_fh THEN fh_log' = fh_log
                  ELSE fh_log' = Append(fh_log, "open")
        /\ (Called(Reads) /\ LastCall.raised = "IndexError") =>
               /\ fh_log' = fh_log
               /\ cached_fh' = cached_fh
        /\ Called({"close"}) =>
               /\ ~cached_fh'
               /\ OpenHandles' = {}
               /\ Len(fh_log') = Len(fh_log)
               /\ ~cached_fh => fh_log' = fh_log ]_vars

\* After parse() of a movie that opens no handle: a read, close(), close()
\* again and another read have left the first handle closed and a second
\* one open and cached.
C30_ReadCloseCloseRead ==
    /\ Len(fh_calls) = 4
    /\ fh_calls[1].call \in Reads /\ fh_calls[1].raised = ""
    /\ fh_calls[2].call = "close"
    /\ fh_calls[3].call = "close"
    /\ fh_calls[4].call \in Reads /\ fh_calls[4].raised = ""
    /\ fh_log = <<"closed", "open">>
    /\ cached_fh

====
